---- MODULE Spec2Model ----
(***************************************************************************)
(* Model of the CAN blob service (bucket.social): the blob routes over the *)
(* AT Protocol adapter, the Redis blob cache and the Redis domain registry *)
(* with its routes.  Every await of a handler is one atomic step of the    *)
(* request's process; `now` is the wall clock read by new Date().          *)
(***************************************************************************)
EXTENDS Integers, Sequences, FiniteSets, TLC

\* ------------------------------------------------------------------ bounds
MaxClock == 3
MaxOps == 4
MaxDomOps == 4
MaxAffix == 2
MaxHandleLen == 4

\* ------------------------------------------------------- program constants
KEY_MAX_LENGTH == 255
RKEY_MAX_LENGTH == 64
\* 86400 * 365: the TTL, in seconds, of a domain-mapping entry
DOMAIN_MAPPING_TTL == 31536000
\* cache TTL settings (in seconds)
BLOB_MAPPING_TTL == 3600
BLOB_METADATA_TTL == 1800
USER_BLOBS_TTL == 300

\* --------------------------------------------------------------- universes
Procs == {1, 2}
Owners == {"alice.bsky.social", "bob.example.com"}
Domains == {"cdn.one.org", "cdn.two.org"}

\* keys are sequences of one-character strings
\* a key one character longer than the validation limit
LongKey == [i \in 1..(KEY_MAX_LENGTH + 1) |-> "k"]
Keys == {<<"k">>, <<"K">>, <<"?">>, LongKey}
Files == {[bytes |-> "png1", mimetype |-> "image/png"],
          [bytes |-> "txt22", mimetype |-> ""]}
EnableVals == {"undefined", "s:true", "s:false"}
\* the version query parameter: a version id (a timestamp), or none
NoVersion == 0
VersionArgs == {NoVersion, 2}

Null == [isNull |-> TRUE]
IsNull(x) == x = Null
IdleLoc == [op |-> "none", pc |-> "idle"]
NoRes == [op |-> "none"]

VARIABLES
  now,          \* wall clock (new Date())
  repo,         \* remote repository: record key -> mapping record or Null
  blobs,        \* remote blob store: set of <<cid, bytes>>
  cacheMapping, \* blob:mapping:<user>:<key> -> cached record or Null
  cacheMeta,    \* blob:metadata:<user>:<key> -> cached BlobInfo or Null
  userBlobs,    \* user:blobs:<user> -> set of keys
  domainMap,    \* domain:mapping:<domain> -> DomainMapping or Null
  userDomains,  \* user:domains:<user> -> set of domains
  allDomains,   \* domains:all
  loc,          \* per request process: the handler's locals and position
  res,          \* per request process: the last response sent
  lastp,        \* the process whose response was sent last
  ops,          \* number of requests started
  ghost,        \* history of the record key (completed operations)
  dghost,       \* history of each domain
  domainExp,    \* expiry time of domain:mapping:<domain> (0: no entry)
  agents,       \* AtProtocolService.agents: identifier -> agent or Null
  rateLimitMap, \* rateLimitMap: identifier -> {count, resetTime} or Null
  rateGhost,    \* history: admissions per identifier and limiter in the
                \* identifier's current window
  cacheTtl      \* seconds the cache entries have left to live (0: no
                \* entry): per mapping key, per metadata key, key-set

vars == <<now, repo, blobs, cacheMapping, cacheMeta, userBlobs, domainMap,
          userDomains, allDomains, loc, res, lastp, ops, ghost, dghost,
          domainExp, agents, rateLimitMap, rateGhost, cacheTtl>>
blobVars == <<repo, blobs, ghost>>
cacheVars == <<cacheMapping, cacheMeta, userBlobs, cacheTtl>>
rateVars == <<rateLimitMap, rateGhost>>
domVars == <<domainMap, userDomains, allDomains, dghost, domainExp>>

\* ------------------------------------------------------------ JS helpers
Truthy(v) == v \in {"s:true", "s:false", "b:true"}
JsOr(a, b) == IF Truthy(a) THEN a ELSE b

Lower(c) == IF c = "K" THEN "k" ELSE IF c = "J" THEN "j" ELSE c
RKeyChars == {"k", "j", "0", ".", "-"}
InvalidKeyChars == {"?", "*", "/", ":"}

ReplaceInvalid_noLower(s) ==
  [i \in 1..Len(s) |-> IF s[i] \in RKeyChars THEN s[i] ELSE "-"]

\* key.toLowerCase().replace(/[^a-z0-9.-]/g, '-')
ReplaceInvalid(s) ==
  [i \in 1..Len(s) |-> IF Lower(s[i]) \in RKeyChars THEN Lower(s[i]) ELSE "-"]

RECURSIVE StripLeading(_)
StripLeading(s) ==
  IF s # <<>> /\ Head(s) = "-" THEN StripLeading(Tail(s)) ELSE s

RECURSIVE StripTrailing(_)
StripTrailing(s) ==
  IF s # <<>> /\ s[Len(s)] = "-" THEN StripTrailing(SubSeq(s, 1, Len(s) - 1))
  ELSE s

Slice(s, n) == SubSeq(s, 1, IF Len(s) < n THEN Len(s) ELSE n)

sanitizeKey(key) ==
  Slice(StripTrailing(StripLeading(ReplaceInvalid(key))), RKEY_MAX_LENGTH)

validateKey_noLength(key) ==
  IF Len(key) = 0 THEN "MISSING_KEY"
  ELSE IF \E i \in 1..Len(key) : key[i] \in InvalidKeyChars
       THEN "INVALID_KEY_CHARACTERS"
  ELSE "ok"

\* validateKeyMiddleware: the error it answers with, or "ok"
validateKey(key) ==
  IF Len(key) = 0 THEN "MISSING_KEY"
  ELSE IF Len(key) > KEY_MAX_LENGTH THEN "KEY_TOO_LONG"
  ELSE IF \E i \in 1..Len(key) : key[i] \in InvalidKeyChars
       THEN "INVALID_KEY_CHARACTERS"
  ELSE "ok"

RKeys == {sanitizeKey(k) : k \in Keys}

\* ------------------------------------------------------- remote adapter
CidOf(bytes) == <<"cid", bytes>>
SizeOf(bytes) == IF bytes = "png1" THEN 4 ELSE 5

createBlobInfo_defaultMime(bytes, mimeType, t) ==
  [cid |-> CidOf(bytes), mimeType |-> "application/octet-stream",
   size |-> SizeOf(bytes), uploadedAt |-> t]

createBlobInfo(bytes, mimeType, t) ==
  [cid |-> CidOf(bytes), mimeType |-> mimeType, size |-> SizeOf(bytes),
   uploadedAt |-> t]

BlobInfoOf(v) ==
  [cid |-> v.cid, mimeType |-> v.mimeType, size |-> v.size,
   uploadedAt |-> v.uploadedAt]

getMappingRecord_cacheFirst(key) ==
  IF key \in DOMAIN cacheMapping /\ ~IsNull(cacheMapping[key])
  THEN cacheMapping[key]
  ELSE repo[sanitizeKey(key)]

getMappingRecord_ownKey(key) ==
  IF ~IsNull(repo[sanitizeKey(key)]) /\ repo[sanitizeKey(key)].key # key
  THEN Null
  ELSE repo[sanitizeKey(key)]

getMappingRecord(key) == repo[sanitizeKey(key)]

downloadBlob(cid) == (CHOOSE b \in blobs : b[1] = cid)[2]

\* ------------------------------------------------ the versions object
\* a JS object: an insertion-ordered list of entries with unique keys
VKeys(vs) == {vs[i].version : i \in 1..Len(vs)}
VHas(vs, id) == id \in VKeys(vs)
VGet(vs, id) == vs[CHOOSE i \in 1..Len(vs) : vs[i].version = id]
VSet(vs, id, val) ==
  IF VHas(vs, id)
  THEN [i \in 1..Len(vs) |-> IF vs[i].version = id THEN val ELSE vs[i]]
  ELSE Append(vs, val)
VDel(vs, id) == SelectSeq(vs, LAMBDA e : e.version # id)
VersionsOf(rec) == IF rec.hasVersions THEN rec.versions ELSE <<>>

\* ------------------------------------------------ upload: the new record
shouldVersionOf_requestOnly(enableVersioning, existing) ==
  JsOr(enableVersioning, "b:false")

shouldVersionOf(enableVersioning, existing) ==
  JsOr(JsOr(enableVersioning,
            IF IsNull(existing) THEN "undefined"
            ELSE existing.versioningEnabled),
       "b:false")

VersionedUpdate_noMerge(existing, blobInfo, shouldVersion, comment, t, t2) ==
  LET newVersion == [cid |-> blobInfo.cid, mimeType |-> blobInfo.mimeType,
                     size |-> blobInfo.size,
                     uploadedAt |-> blobInfo.uploadedAt,
                     version |-> t, comment |-> comment]
  IN [existing EXCEPT !.current = blobInfo,
                      !.hasVersions = TRUE,
                      !.versions = <<newVersion>>,
                      !.updatedAt = t2,
                      !.versioningEnabled = shouldVersion]

\* versionId (t) and updatedAt (t2) are two reads of the clock
VersionedUpdate(existing, blobInfo, shouldVersion, comment, t, t2) ==
  LET newVersion == [cid |-> blobInfo.cid, mimeType |-> blobInfo.mimeType,
                     size |-> blobInfo.size,
                     uploadedAt |-> blobInfo.uploadedAt,
                     version |-> t, comment |-> comment]
  IN [existing EXCEPT !.current = blobInfo,
                      !.hasVersions = TRUE,
                      !.versions = VSet(VersionsOf(existing), t, newVersion),
                      !.updatedAt = t2,
                      !.versioningEnabled = shouldVersion]

PlainUpdate_keepCurrent(existing, blobInfo, t) ==
  [existing EXCEPT !.updatedAt = t]

PlainUpdate_newCreatedAt(existing, blobInfo, t) ==
  [existing EXCEPT !.current = blobInfo, !.updatedAt = t, !.createdAt = t]

PlainUpdate(existing, blobInfo, t) ==
  [existing EXCEPT !.current = blobInfo, !.updatedAt = t]

\* createdAt (t) and updatedAt (t2) are two reads of the clock
NewRecord(key, blobInfo, shouldVersion, t, t2) ==
  [key |-> key, current |-> blobInfo, createdAt |-> t, updatedAt |-> t2,
   versioningEnabled |-> shouldVersion,
   hasVersions |-> Truthy(shouldVersion), versions |-> <<>>]

BuildRecord(existing, key, blobInfo, shouldVersion, comment, t, t2) ==
  IF ~IsNull(existing) /\ Truthy(shouldVersion)
  THEN VersionedUpdate(existing, blobInfo, shouldVersion, comment, t, t2)
  ELSE IF ~IsNull(existing)
  THEN PlainUpdate(existing, blobInfo, t)
  ELSE NewRecord(key, blobInfo, shouldVersion, t, t2)


\* ------------------------------------------------------ history (ghost)
GhostInit ==
  [lastWrite |-> "none", lastUp |-> Null, nUp |-> 0,
   createdVersioned |-> FALSE, vdel |-> FALSE, upTimes |-> {},
   collide |-> FALSE, superseded |-> {}]

GhostAfterUpload(g, l) ==
  LET created == IsNull(l.existing)
      base == IF created THEN GhostInit ELSE g
  IN [base EXCEPT
        !.lastWrite = "upload",
        !.lastUp = [key |-> l.key, bytes |-> l.bytes,
                    mimeType |-> l.sentMime, info |-> l.blobInfo],
        !.nUp = base.nUp + 1,
        !.createdVersioned = IF created THEN Truthy(l.shouldVersion)
                             ELSE base.createdVersioned,
        !.upTimes = base.upTimes \cup {l.blobInfo.uploadedAt},
        !.collide = base.collide
                    \/ l.blobInfo.uploadedAt \in base.upTimes,
        !.superseded = IF created THEN {}
                       ELSE base.superseded \cup {l.existing.current}]

Respond(p, r) ==
  /\ res' = [res EXCEPT ![p] = r]
  /\ lastp' = p
  /\ loc' = [loc EXCEPT ![p] = IdleLoc]

Begin(p) ==
  /\ loc[p].pc = "idle"
  /\ ops < MaxOps
  /\ ops' = ops + 1

\* ------------------------------------------------ POST /blobs/:key
StartUpload(p, key, file, enableVersioning, comment) ==
  /\ Begin(p)
  /\ IF validateKey(key) # "ok"
     THEN /\ res' = [res EXCEPT ![p] = [op |-> "upload", key |-> key,
                                       status |-> 400,
                                       error |-> validateKey(key)]]
          /\ lastp' = p
          /\ UNCHANGED loc
     ELSE /\ loc' = [loc EXCEPT ![p] =
                 [op |-> "upload", pc |-> "up_get", key |-> key,
                  bytes |-> file.bytes, sentMime |-> file.mimetype,
                  mimeType |-> IF file.mimetype = ""
                               THEN "application/octet-stream"
                               ELSE file.mimetype,
                  comment |-> comment,
                  enableVersioning |-> enableVersioning,
                  atStart |-> repo[sanitizeKey(key)]]]
          /\ UNCHANGED <<res, lastp>>
  /\ UNCHANGED <<now, agents, rateVars, blobVars, cacheVars, domVars>>

UploadGetRecord(p) ==
  /\ loc[p].pc = "up_get"
  /\ LET existing == getMappingRecord(loc[p].key)
         l == loc[p]
     IN loc' = [loc EXCEPT ![p] =
           [op |-> "upload", pc |-> "up_blob", key |-> l.key,
            bytes |-> l.bytes, sentMime |-> l.sentMime,
            mimeType |-> l.mimeType,
            comment |-> l.comment, existing |-> existing,
            shouldVersion |-> shouldVersionOf(l.enableVersioning, existing),
            atStart |-> l.atStart]]
  /\ UNCHANGED <<now, agents, rateVars, blobVars, cacheVars, domVars, res, lastp, ops>>

\* createBlobInfo and the first clock read of the record are taken at the
\* same instant; a record with a second clock read (t2) may read it later
UploadBlob(p) ==
  /\ loc[p].pc = "up_blob"
  /\ blobs' = blobs \cup {<<CidOf(loc[p].bytes), loc[p].bytes>>}
  /\ \E t2 \in {now, now + 1} :
        /\ t2 <= MaxClock
        /\ t2 # now => (IsNull(loc[p].existing)
                          \/ Truthy(loc[p].shouldVersion))
        /\ now' = t2
        /\ LET l == loc[p]
               blobInfo == createBlobInfo(l.bytes, l.mimeType, now)
           IN loc' = [loc EXCEPT ![p] =
                 [op |-> "upload", pc |-> "up_put", key |-> l.key,
                  bytes |-> l.bytes, sentMime |-> l.sentMime,
                  existing |-> l.existing,
                  shouldVersion |-> l.shouldVersion,
                  blobInfo |-> blobInfo, atStart |-> l.atStart,
                  record |-> BuildRecord(l.existing, l.key, blobInfo,
                                         l.shouldVersion, l.comment,
                                         now, t2)]]
  /\ UNCHANGED <<agents, rateVars, repo, ghost, cacheVars, domVars, res, lastp, ops>>

\* a store that would merge the versions of the record it holds
putMappingRecord_merge(record) ==
  LET held == repo[sanitizeKey(record.key)]
      extra == IF IsNull(held) THEN <<>>
               ELSE SelectSeq(VersionsOf(held),
                              LAMBDA e : ~VHas(record.versions, e.version))
  IN repo' = [repo EXCEPT ![sanitizeKey(record.key)] =
                 [record EXCEPT !.versions = record.versions \o extra]]

putMappingRecord(record) ==
  repo' = [repo EXCEPT ![sanitizeKey(record.key)] = record]

UploadPut(p) ==
  /\ loc[p].pc = "up_put"
  /\ putMappingRecord(loc[p].record)
  /\ loc' = [loc EXCEPT ![p].pc = "up_resp"]
  /\ UNCHANGED <<now, agents, rateVars, blobs, ghost, cacheVars, domVars, res, lastp, ops>>

UploadRespond(p) ==
  /\ loc[p].pc = "up_resp"
  /\ LET l == loc[p]
         withVersion == Truthy(l.shouldVersion) /\ ~IsNull(l.existing)
     IN /\ Respond(p, [op |-> "upload", key |-> l.key,
                       status |-> IF IsNull(l.existing) THEN 201 ELSE 200,
                       cid |-> l.blobInfo.cid,
                       size |-> l.blobInfo.size,
                       mimeType |-> l.blobInfo.mimeType,
                       hasVersion |-> withVersion,
                       version |-> IF withVersion THEN now ELSE 0,
                       existing |-> l.existing,
                       shouldVersion |-> l.shouldVersion,
                       blobInfo |-> l.blobInfo,
                       record |-> l.record])
        /\ ghost' = [ghost EXCEPT ![sanitizeKey(l.key)] =
                        GhostAfterUpload(@, l)]
  /\ UNCHANGED <<now, agents, rateVars, repo, blobs, cacheVars, domVars, ops>>

\* ------------------------------------------------ GET /blobs/:key
StartGet(p, key, version) ==
  /\ Begin(p)
  /\ IF validateKey(key) # "ok"
     THEN /\ res' = [res EXCEPT ![p] = [op |-> "get", key |-> key,
                                       status |-> 400,
                                       error |-> validateKey(key)]]
          /\ lastp' = p
          /\ UNCHANGED loc
     ELSE /\ loc' = [loc EXCEPT ![p] = [op |-> "get", pc |-> "get_rec",
                                       key |-> key, version |-> version]]
          /\ UNCHANGED <<res, lastp>>
  /\ UNCHANGED <<now, agents, rateVars, blobVars, cacheVars, domVars>>

\* `if (version && record.versions)`
GetSelectsVersion(version, record) ==
  version # NoVersion /\ record.hasVersions

GetRecord(p) ==
  /\ loc[p].pc = "get_rec"
  /\ LET l == loc[p]
         record == getMappingRecord(l.key)
         known == ~IsNull(record) /\ l.version # NoVersion
                  /\ VHas(VersionsOf(record), l.version)
     IN IF IsNull(record)
        THEN Respond(p, [op |-> "get", key |-> l.key, version |-> l.version,
                         status |-> 404, error |-> "BLOB_NOT_FOUND",
                         recordFound |-> FALSE, versionKnown |-> FALSE])
        ELSE IF GetSelectsVersion(l.version, record)
                /\ ~VHas(record.versions, l.version)
        THEN Respond(p, [op |-> "get", key |-> l.key, version |-> l.version,
                         status |-> 404, error |-> "VERSION_NOT_FOUND",
                         recordFound |-> TRUE, versionKnown |-> known])
        ELSE /\ loc' = [loc EXCEPT ![p] =
                  [op |-> "get", pc |-> "get_dl", key |-> l.key,
                   version |-> l.version, versionKnown |-> known,
                   selected |-> GetSelectsVersion(l.version, record),
                   blobInfo |-> IF GetSelectsVersion(l.version, record)
                                THEN BlobInfoOf(VGet(record.versions,
                                                     l.version))
                                ELSE record.current]]
             /\ UNCHANGED <<res, lastp>>
  /\ UNCHANGED <<now, agents, rateVars, blobVars, cacheVars, domVars, ops>>

\* history: what the response before this one returned, when it was a
\* successful get of the same key and version
PrevGet(key, version) ==
  LET r == res[lastp]
  IN IF r.op = "get" /\ r.status = 200 /\ r.key = key
        /\ r.version = version
     THEN r.blobInfo ELSE Null

GetDownload(p) ==
  /\ loc[p].pc = "get_dl"
  /\ LET l == loc[p]
     IN Respond(p, [op |-> "get", key |-> l.key, version |-> l.version,
                    status |-> 200, error |-> "none",
                    recordFound |-> TRUE, versionKnown |-> l.versionKnown,
                    data |-> downloadBlob(l.blobInfo.cid),
                    mimeType |-> l.blobInfo.mimeType,
                    size |-> l.blobInfo.size,
                    blobInfo |-> l.blobInfo,
                    prev |-> PrevGet(l.key, l.version),
                    xVersion |-> IF l.selected THEN l.version
                                 ELSE NoVersion])
  /\ UNCHANGED <<now, agents, rateVars, blobVars, cacheVars, domVars, ops>>


\* ------------------------------------------------ GET /blobs/:key/versions
InsertDesc_unstable(sorted, e) ==
  LET after == {i \in 1..Len(sorted) : sorted[i].uploadedAt <= e.uploadedAt}
      k == IF after = {} THEN Len(sorted) + 1
           ELSE CHOOSE i \in after : \A j \in after : i <= j
  IN SubSeq(sorted, 1, k - 1) \o <<e>> \o SubSeq(sorted, k, Len(sorted))

\* Array.prototype.sort is stable: insert each entry after the entries that
\* do not sort after it
RECURSIVE InsertDesc(_, _)
InsertDesc(sorted, e) ==
  IF sorted = <<>> THEN <<e>>
  ELSE IF Head(sorted).uploadedAt >= e.uploadedAt
       THEN <<Head(sorted)>> \o InsertDesc(Tail(sorted), e)
       ELSE <<e>> \o sorted

RECURSIVE SortByUploadedAtDesc(_)
SortByUploadedAtDesc(vs) ==
  IF vs = <<>> THEN <<>>
  ELSE InsertDesc(SortByUploadedAtDesc(SubSeq(vs, 1, Len(vs) - 1)),
                  vs[Len(vs)])

\* `versions = record.versions ? Object.values(record.versions) : []`,
\* sorted by uploadedAt descending
ListVersionsResponse(key, record) ==
  [op |-> "list", key |-> key, status |-> 200, error |-> "none",
   current |-> record.current,
   versions |-> SortByUploadedAtDesc(VersionsOf(record))]

StartList(p, key) ==
  /\ Begin(p)
  /\ IF validateKey(key) # "ok"
     THEN /\ res' = [res EXCEPT ![p] = [op |-> "list", key |-> key,
                                       status |-> 400,
                                       error |-> validateKey(key)]]
          /\ lastp' = p
          /\ UNCHANGED loc
     ELSE /\ loc' = [loc EXCEPT ![p] = [op |-> "list", pc |-> "list_rec",
                                       key |-> key]]
          /\ UNCHANGED <<res, lastp>>
  /\ UNCHANGED <<now, agents, rateVars, blobVars, cacheVars, domVars>>

ListRecord(p) ==
  /\ loc[p].pc = "list_rec"
  /\ LET l == loc[p]
         record == getMappingRecord(l.key)
     IN IF IsNull(record)
        THEN Respond(p, [op |-> "list", key |-> l.key, status |-> 404,
                         error |-> "BLOB_NOT_FOUND"])
        ELSE Respond(p, ListVersionsResponse(l.key, record))
  /\ UNCHANGED <<now, agents, rateVars, blobVars, cacheVars, domVars, ops>>

\* ------------------------------------------------ DELETE /blobs/:key
StartDelete(p, key, version) ==
  /\ Begin(p)
  /\ IF validateKey(key) # "ok"
     THEN /\ res' = [res EXCEPT ![p] = [op |-> "delete", key |-> key,
                                       status |-> 400,
                                       error |-> validateKey(key)]]
          /\ lastp' = p
          /\ UNCHANGED loc
     ELSE /\ loc' = [loc EXCEPT ![p] = [op |-> "delete", pc |-> "del_get",
                                       key |-> key, version |-> version,
                                       atStart |-> repo[sanitizeKey(key)]]]
          /\ UNCHANGED <<res, lastp>>
  /\ UNCHANGED <<now, agents, rateVars, blobVars, cacheVars, domVars>>

RemoveVersion_all(record, version, t) ==
  [record EXCEPT !.versions = <<>>, !.updatedAt = t]

\* `delete record.versions[version]; record.updatedAt = ...`
RemoveVersion(record, version, t) ==
  [record EXCEPT !.versions = VDel(record.versions, version),
                 !.updatedAt = t]

DeleteGetRecord(p) ==
  /\ loc[p].pc = "del_get"
  /\ LET l == loc[p]
         record == getMappingRecord(l.key)
     IN IF IsNull(record)
        THEN Respond(p, [op |-> "delete", key |-> l.key,
                         version |-> l.version, status |-> 404,
                         error |-> "BLOB_NOT_FOUND"])
        ELSE IF l.version # NoVersion
        THEN IF ~record.hasVersions \/ ~VHas(record.versions, l.version)
             THEN Respond(p, [op |-> "delete", key |-> l.key,
                              version |-> l.version, status |-> 404,
                              error |-> "VERSION_NOT_FOUND",
                              before |-> record])
             ELSE /\ loc' = [loc EXCEPT ![p] =
                      [op |-> "delete", pc |-> "del_put", key |-> l.key,
                       version |-> l.version, before |-> record,
                       atStart |-> l.atStart,
                       record |-> RemoveVersion(record, l.version, now)]]
                  /\ UNCHANGED <<res, lastp>>
        ELSE /\ loc' = [loc EXCEPT ![p] =
                 [op |-> "delete", pc |-> "del_rec", key |-> l.key,
                  version |-> l.version, atStart |-> l.atStart]]
             /\ UNCHANGED <<res, lastp>>
  /\ UNCHANGED <<now, agents, rateVars, blobVars, cacheVars, domVars, ops>>

DeleteVersionPut(p) ==
  /\ loc[p].pc = "del_put"
  /\ putMappingRecord(loc[p].record)
  /\ Respond(p, [op |-> "delete", key |-> loc[p].key,
                 version |-> loc[p].version, status |-> 200,
                 error |-> "none", before |-> loc[p].before])
  /\ ghost' = [ghost EXCEPT ![sanitizeKey(loc[p].key)] =
                  [@ EXCEPT !.lastWrite = "vdelete", !.vdel = TRUE]]
  /\ UNCHANGED <<now, agents, rateVars, blobs, cacheVars, domVars, ops>>

deleteMappingRecord(key) ==
  repo' = [repo EXCEPT ![sanitizeKey(key)] = Null]

DeleteRecord(p) ==
  /\ loc[p].pc = "del_rec"
  /\ deleteMappingRecord(loc[p].key)
  /\ Respond(p, [op |-> "delete", key |-> loc[p].key,
                 version |-> loc[p].version, status |-> 200,
                 error |-> "none"])
  /\ ghost' = [ghost EXCEPT ![sanitizeKey(loc[p].key)] =
                  [GhostInit EXCEPT !.lastWrite = "delete"]]
  /\ UNCHANGED <<now, agents, rateVars, blobs, cacheVars, domVars, ops>>

\* ------------------------------------------------ the clock
\* time passing is only observable by the next new Date(): the clock
\* advances while some handler is about to read it
ClockReaders == {"up_blob", "up_resp", "del_get", "reg_write", "upd_write"}

Tick ==
  /\ now < MaxClock
  /\ \E p \in Procs : loc[p].pc \in ClockReaders
  /\ now' = now + 1
  /\ UNCHANGED <<agents, rateVars, blobVars, cacheVars, domVars, loc, res,
               lastp, ops>>

\* ------------------------------------------------ BlobCacheService
\* no route calls the cache service; its operations are entry points of
\* their own, called with a record read from the repository
CacheSetBlobMapping(key) ==
  /\ ops < MaxOps
  /\ ops' = ops + 1
  /\ ~IsNull(getMappingRecord(key))
  /\ cacheMapping' = [cacheMapping EXCEPT ![key] = getMappingRecord(key)]
  /\ userBlobs' = userBlobs \cup {key}
  /\ cacheTtl' = [cacheTtl EXCEPT !.mapping[key] = BLOB_MAPPING_TTL,
                                  !.userBlobs = USER_BLOBS_TTL]
  /\ UNCHANGED <<now, agents, rateVars, blobVars, cacheMeta, domVars, loc, res, lastp>>

CacheInvalidateBlobMapping(key) ==
  /\ ops < MaxOps
  /\ ops' = ops + 1
  /\ cacheMapping' = [cacheMapping EXCEPT ![key] = Null]
  /\ cacheMeta' = [cacheMeta EXCEPT ![key] = Null]
  /\ userBlobs' = userBlobs \ {key}
  /\ cacheTtl' = [cacheTtl EXCEPT !.mapping[key] = 0, !.meta[key] = 0,
                                  !.userBlobs = IF userBlobs \ {key} = {}
                                                THEN 0 ELSE @]
  /\ UNCHANGED <<now, agents, rateVars, blobVars, domVars, loc, res, lastp>>

ValidKeys == {k \in Keys : validateKey(k) = "ok"}

\* ------------------------------------------------ rateLimitMiddleware
\* the limiters are made by rateLimitMiddleware(windowMs, maxRequests) and
\* share the module's rateLimitMap; the limiters differ in maxRequests
RateLimits == {2, 3}

rateLimitMiddleware_offByOne(identifier, windowMs, maxRequests) ==
  LET userLimit == rateLimitMap[identifier]
      reply(status, err, fresh) ==
        /\ res' = [res EXCEPT ![1] =
              [op |-> "rate", identifier |-> identifier,
               maxRequests |-> maxRequests, status |-> status,
               error |-> err, newWindow |-> fresh, before |-> userLimit,
               at |-> now, windowMs |-> windowMs]]
        /\ lastp' = 1
  IN /\ IF IsNull(userLimit) \/ now > userLimit.resetTime
        THEN /\ rateLimitMap' = [rateLimitMap EXCEPT ![identifier] =
                    [count |-> 1, resetTime |-> now + windowMs]]
             /\ rateGhost' = [rateGhost EXCEPT ![identifier] =
                    [m \in RateLimits |-> IF m = maxRequests THEN 1 ELSE 0]]
             /\ reply(200, "none", TRUE)
        ELSE IF userLimit.count > maxRequests
        THEN /\ reply(429, "RATE_LIMIT_EXCEEDED", FALSE)
             /\ UNCHANGED rateVars
        ELSE /\ rateLimitMap' = [rateLimitMap EXCEPT
                                  ![identifier].count = @ + 1]
             /\ rateGhost' = [rateGhost EXCEPT
                               ![identifier][maxRequests] = @ + 1]
             /\ reply(200, "none", FALSE)
     /\ UNCHANGED <<now, agents, blobVars, cacheVars, domVars, loc, ops>>

\* the middleware for a request with credentials: next() is status 200
rateLimitMiddleware(identifier, windowMs, maxRequests) ==
  LET userLimit == rateLimitMap[identifier]
      reply(status, err, fresh) ==
        /\ res' = [res EXCEPT ![1] =
              [op |-> "rate", identifier |-> identifier,
               maxRequests |-> maxRequests, status |-> status,
               error |-> err, newWindow |-> fresh, before |-> userLimit,
               at |-> now, windowMs |-> windowMs]]
        /\ lastp' = 1
  IN /\ IF IsNull(userLimit) \/ now > userLimit.resetTime
        THEN /\ rateLimitMap' = [rateLimitMap EXCEPT ![identifier] =
                    [count |-> 1, resetTime |-> now + windowMs]]
             /\ rateGhost' = [rateGhost EXCEPT ![identifier] =
                    [m \in RateLimits |-> IF m = maxRequests THEN 1 ELSE 0]]
             /\ reply(200, "none", TRUE)
        ELSE IF userLimit.count >= maxRequests
        THEN /\ reply(429, "RATE_LIMIT_EXCEEDED", FALSE)
             /\ UNCHANGED rateVars
        ELSE /\ rateLimitMap' = [rateLimitMap EXCEPT
                                  ![identifier].count = @ + 1]
             /\ rateGhost' = [rateGhost EXCEPT
                               ![identifier][maxRequests] = @ + 1]
             /\ reply(200, "none", FALSE)
     /\ UNCHANGED <<now, agents, blobVars, cacheVars, domVars, loc, ops>>

\* time passes between two requests
RateTick ==
  /\ now < MaxClock
  /\ now' = now + 1
  /\ UNCHANGED <<agents, rateVars, blobVars, cacheVars, domVars, loc, res,
               lastp, ops>>

\* ------------------------------------------------ initial state
InitStores ==
  /\ now = 1
  /\ repo = [rk \in RKeys |-> Null]
  /\ blobs = {}
  /\ cacheMapping = [k \in ValidKeys |-> Null]
  /\ cacheMeta = [k \in ValidKeys |-> Null]
  /\ userBlobs = {}
  /\ cacheTtl = [mapping |-> [k \in ValidKeys |-> 0],
                 meta |-> [k \in ValidKeys |-> 0], userBlobs |-> 0]
  /\ domainMap = [d \in Domains |-> Null]
  /\ userDomains = [o \in Owners |-> {}]
  /\ allDomains = {}
  /\ loc = [p \in Procs |-> IdleLoc]
  /\ lastp = 1
  /\ ops = 0
  /\ ghost = [rk \in RKeys |-> GhostInit]
  /\ dghost = [d \in Domains |-> [winners |-> 0, regOwner |-> "none",
                                  deletedBy |-> "none"]]
  /\ agents = [o \in Owners |-> Null]
  /\ rateLimitMap = [o \in Owners |-> Null]
  /\ rateGhost = [o \in Owners |-> [m \in RateLimits |-> 0]]
  /\ domainExp = [d \in Domains |-> 0]

Init ==
  /\ InitStores
  /\ res = [p \in Procs |-> NoRes]

AllIdle == \A p \in Procs : loc[p].pc = "idle"

SeqKeys == {<<"k">>, <<"?">>, LongKey}

BlobStart(p, KS) ==
  \/ \E key \in KS, file \in Files, ev \in EnableVals :
        StartUpload(p, key, file, ev, "note")
  \/ \E key \in KS, version \in VersionArgs : StartGet(p, key, version)
  \/ \E key \in KS : StartList(p, key)
  \/ \E key \in KS, version \in VersionArgs : StartDelete(p, key, version)

BlobStep(p) ==
  \/ UploadGetRecord(p)
  \/ UploadBlob(p)
  \/ UploadPut(p)
  \/ UploadRespond(p)
  \/ GetRecord(p)
  \/ GetDownload(p)
  \/ ListRecord(p)
  \/ DeleteGetRecord(p)
  \/ DeleteVersionPut(p)
  \/ DeleteRecord(p)

CacheOp(KS) ==
  \/ \E key \in KS \cap ValidKeys : AllIdle /\ CacheSetBlobMapping(key)
  \/ \E key \in KS \cap ValidKeys :
        AllIdle /\ CacheInvalidateBlobMapping(key)

\* one request at a time
BlobSeqNext ==
  \/ AllIdle /\ BlobStart(1, SeqKeys)
  \/ BlobStep(1)
  \/ CacheOp(SeqKeys)
  \/ Tick

BlobSeqSpec == Init /\ [][BlobSeqNext]_vars

\* the limiter alone
RateNext ==
  \/ \E identifier \in Owners, maxRequests \in RateLimits :
        rateLimitMiddleware(identifier, 1, maxRequests)
  \/ RateTick

RateSpec == Init /\ [][RateNext]_vars

\* one request at a time, on two keys that differ only in case
BlobCollideNext ==
  \/ \E key \in {<<"k">>, <<"K">>}, file \in Files :
        AllIdle /\ StartUpload(1, key, file, "undefined", "note")
  \/ \E key \in {<<"k">>, <<"K">>} : AllIdle /\ StartGet(1, key, NoVersion)
  \/ \E key \in {<<"k">>, <<"K">>} :
        AllIdle /\ StartDelete(1, key, NoVersion)
  \/ UploadGetRecord(1)
  \/ UploadBlob(1)
  \/ UploadPut(1)
  \/ UploadRespond(1)
  \/ GetRecord(1)
  \/ GetDownload(1)
  \/ DeleteGetRecord(1)
  \/ DeleteRecord(1)
  \/ Tick

BlobCollideSpec == Init /\ [][BlobCollideNext]_vars

\* ------------------------------------------------ concurrent uploads
\* two requests in flight on one key: every await of POST /blobs/:key is
\* a point where the other request may run
MaxRaceOps == 3

BlobRaceNext ==
  \/ \E p \in Procs, file \in Files :
        ops < MaxRaceOps /\ StartUpload(p, <<"k">>, file, "s:true", "note")
  \/ \E p \in Procs : UploadGetRecord(p)
  \/ \E p \in Procs : UploadBlob(p)
  \/ \E p \in Procs : UploadPut(p)
  \/ \E p \in Procs : UploadRespond(p)
  \/ Tick

BlobRaceSpec == Init /\ [][BlobRaceNext]_vars

\* a versioned upload (request 1) and a version delete (request 2) in
\* flight on one key: DELETE /blobs/:key?version= reads the record,
\* removes the entry from the copy it read and stores that copy as a whole
VersionRaceNext ==
  \/ \E file \in Files : StartUpload(1, <<"k">>, file, "s:true", "note")
  \/ StartDelete(2, <<"k">>, 2)
  \/ UploadGetRecord(1)
  \/ UploadBlob(1)
  \/ UploadPut(1)
  \/ UploadRespond(1)
  \/ DeleteGetRecord(2)
  \/ DeleteVersionPut(2)
  \/ Tick

VersionRaceSpec == Init /\ [][VersionRaceNext]_vars

\* ------------------------------------------------ adapter failures
\* the awaits of POST /blobs/:key and DELETE /blobs/:key that call the
\* adapter (getMappingRecord, uploadBlob, putMappingRecord,
\* deleteMappingRecord)
AdapterCallPcs ==
  {"up_get", "up_blob", "up_put", "del_get", "del_put", "del_rec"}

HandlerCatch_swallow(l) ==
  [op |-> l.op, key |-> l.key, status |-> 200,
   error |-> "none", failedAt |-> l.pc, atStart |-> l.atStart]

\* the catch block of the handler: 500 UPLOAD_FAILED / DELETION_FAILED
HandlerCatch(l) ==
  [op |-> l.op, key |-> l.key, status |-> 500,
   error |-> IF l.op = "upload" THEN "UPLOAD_FAILED" ELSE "DELETION_FAILED",
   failedAt |-> l.pc, atStart |-> l.atStart]

\* the adapter call the handler is waiting for throws: the call has no
\* effect on the repository and the handler's catch answers
AdapterFail(p) ==
  /\ loc[p].pc \in AdapterCallPcs
  /\ Respond(p, HandlerCatch(loc[p]))
  /\ UNCHANGED <<now, agents, rateVars, blobVars, cacheVars, domVars, ops>>

\* one request at a time, each adapter call may fail
BlobFaultNext ==
  \/ AllIdle /\ BlobStart(1, SeqKeys)
  \/ BlobStep(1)
  \/ AdapterFail(1)
  \/ Tick

BlobFaultSpec == Init /\ [][BlobFaultNext]_vars


\* ------------------------------------------------ BlobCacheService calls
\* every method runs inside try { await this.connect(); ... } catch;
\* `up` is whether the Redis store answers during the call
CacheReply(method, key, up, threw, ret) ==
  /\ res' = [res EXCEPT ![1] = [op |-> "cache", method |-> method,
                                 key |-> key, up |-> up, threw |-> threw,
                                 ret |-> ret]]
  /\ lastp' = 1
  /\ UNCHANGED <<now, agents, rateVars, blobVars, domVars, loc, ops>>

getBlobMapping(up, key) ==
  /\ CacheReply("getBlobMapping", key, up, FALSE,
                IF up THEN cacheMapping[key] ELSE Null)
  /\ UNCHANGED cacheVars

setBlobMapping(up, key, mapping) ==
  /\ CacheReply("setBlobMapping", key, up, FALSE, up)
  /\ IF up
     THEN /\ cacheMapping' = [cacheMapping EXCEPT ![key] = mapping]
          /\ userBlobs' = userBlobs \cup {key}
          /\ cacheTtl' = [cacheTtl EXCEPT
                            !.mapping[key] = BLOB_MAPPING_TTL,
                            !.userBlobs = USER_BLOBS_TTL]
          /\ UNCHANGED cacheMeta
     ELSE UNCHANGED cacheVars

getBlobMetadata(up, key) ==
  /\ CacheReply("getBlobMetadata", key, up, FALSE,
                IF up THEN cacheMeta[key] ELSE Null)
  /\ UNCHANGED cacheVars

setBlobMetadata(up, key, metadata) ==
  /\ CacheReply("setBlobMetadata", key, up, FALSE, up)
  /\ IF up
     THEN /\ cacheMeta' = [cacheMeta EXCEPT ![key] = metadata]
          /\ cacheTtl' = [cacheTtl EXCEPT !.meta[key] = BLOB_METADATA_TTL]
          /\ UNCHANGED <<cacheMapping, userBlobs>>
     ELSE UNCHANGED cacheVars

invalidateBlobMapping(up, key) ==
  /\ CacheReply("invalidateBlobMapping", key, up, FALSE, up)
  /\ IF up
     THEN /\ cacheMapping' = [cacheMapping EXCEPT ![key] = Null]
          /\ cacheMeta' = [cacheMeta EXCEPT ![key] = Null]
          /\ userBlobs' = userBlobs \ {key}
          /\ cacheTtl' = [cacheTtl EXCEPT
                            !.mapping[key] = 0, !.meta[key] = 0,
                            !.userBlobs = IF userBlobs \ {key} = {}
                                          THEN 0 ELSE @]
     ELSE UNCHANGED cacheVars

invalidateUserBlobs_keepMetadata(up) ==
  /\ CacheReply("invalidateUserBlobs", IF up THEN userBlobs ELSE {}, up,
                FALSE, up)
  /\ IF up
     THEN /\ cacheMapping' = [k \in DOMAIN cacheMapping |->
                               IF k \in userBlobs THEN Null
                               ELSE cacheMapping[k]]
          /\ userBlobs' = {}
          /\ cacheTtl' = [cacheTtl EXCEPT
                            !.mapping = [k \in DOMAIN cacheMapping |->
                                          IF k \in userBlobs THEN 0
                                          ELSE cacheTtl.mapping[k]],
                            !.userBlobs = 0]
          /\ UNCHANGED cacheMeta
     ELSE UNCHANGED cacheVars

\* the reply records the key-set read by sMembers
invalidateUserBlobs(up) ==
  /\ CacheReply("invalidateUserBlobs", IF up THEN userBlobs ELSE {}, up,
                FALSE, up)
  /\ IF up
     THEN /\ cacheMapping' = [k \in DOMAIN cacheMapping |->
                               IF k \in userBlobs THEN Null
                               ELSE cacheMapping[k]]
          /\ cacheMeta' = [k \in DOMAIN cacheMeta |->
                            IF k \in userBlobs THEN Null ELSE cacheMeta[k]]
          /\ userBlobs' = {}
          /\ cacheTtl' =
                [mapping |-> [k \in DOMAIN cacheMapping |->
                                IF k \in userBlobs THEN 0
                                ELSE cacheTtl.mapping[k]],
                 meta |-> [k \in DOMAIN cacheMeta |->
                             IF k \in userBlobs THEN 0
                             ELSE cacheTtl.meta[k]],
                 userBlobs |-> 0]
     ELSE UNCHANGED cacheVars

getUserBlobKeys_rethrow(up) ==
  /\ CacheReply("getUserBlobKeys", <<>>, up, ~up,
                IF up THEN userBlobs ELSE {})
  /\ UNCHANGED cacheVars

getUserBlobKeys(up) ==
  /\ CacheReply("getUserBlobKeys", <<>>, up, FALSE,
                IF up THEN userBlobs ELSE {})
  /\ UNCHANGED cacheVars

updateBlobMapping(up, key, mapping) ==
  /\ CacheReply("updateBlobMapping", key, up, FALSE, up)
  /\ IF up
     THEN /\ cacheMapping' = [cacheMapping EXCEPT ![key] = mapping]
          /\ userBlobs' = userBlobs \cup {key}
          /\ cacheTtl' = [cacheTtl EXCEPT
                            !.mapping[key] = BLOB_MAPPING_TTL,
                            !.userBlobs = USER_BLOBS_TTL]
          /\ UNCHANGED cacheMeta
     ELSE UNCHANGED cacheVars

\* Redis expires the entries: time passes up to the moment the next
\* entry runs out; that entry is dropped and every other entry has so
\* much less to live.  A set key that expires is dropped as a whole.
Elapse ==
  LET left == {cacheTtl.mapping[k] : k \in ValidKeys}
                \cup {cacheTtl.meta[k] : k \in ValidKeys}
                \cup {cacheTtl.userBlobs}
      live == left \ {0}
      d == CHOOSE t \in live : \A u \in live : t <= u
      After(t) == IF t > d THEN t - d ELSE 0
  IN /\ live # {}
     /\ cacheTtl' = [mapping |-> [k \in ValidKeys |->
                                    After(cacheTtl.mapping[k])],
                     meta |-> [k \in ValidKeys |-> After(cacheTtl.meta[k])],
                     userBlobs |-> After(cacheTtl.userBlobs)]
     /\ cacheMapping' = [k \in ValidKeys |->
                           IF cacheTtl.mapping[k] > d THEN cacheMapping[k]
                           ELSE Null]
     /\ cacheMeta' = [k \in ValidKeys |->
                        IF cacheTtl.meta[k] > d THEN cacheMeta[k]
                        ELSE Null]
     /\ userBlobs' = IF cacheTtl.userBlobs > d THEN userBlobs ELSE {}
     /\ UNCHANGED <<now, agents, rateVars, blobVars, domVars, loc, res,
                    lastp, ops>>

\* the records and metadata callers pass for a key
MappingsFor(key) ==
  {NewRecord(key, createBlobInfo(f.bytes, f.mimetype, 1), "undefined", 1, 1) :
     f \in Files}
MetadataArgs == {createBlobInfo(f.bytes, f.mimetype, 1) : f \in Files}

CacheNext ==
  \E up \in BOOLEAN :
    \/ \E key \in ValidKeys : getBlobMapping(up, key)
    \/ \E key \in ValidKeys : \E m \in MappingsFor(key) :
          setBlobMapping(up, key, m)
    \/ \E key \in ValidKeys : getBlobMetadata(up, key)
    \/ \E key \in ValidKeys, m \in MetadataArgs :
          setBlobMetadata(up, key, m)
    \/ \E key \in ValidKeys : invalidateBlobMapping(up, key)
    \/ invalidateUserBlobs(up)
    \/ getUserBlobKeys(up)
    \/ \E key \in ValidKeys : \E m \in MappingsFor(key) :
          updateBlobMapping(up, key, m)

CacheSpec == Init /\ [][CacheNext]_vars

\* the calls that write the mapping entries and the key-set, and the
\* expiry of the entries
CacheTtlNext ==
  \/ \E up \in BOOLEAN, key \in ValidKeys : \E m \in MappingsFor(key) :
        setBlobMapping(up, key, m)
  \/ \E up \in BOOLEAN, key \in ValidKeys : \E m \in MappingsFor(key) :
        updateBlobMapping(up, key, m)
  \/ \E up \in BOOLEAN, key \in ValidKeys : invalidateBlobMapping(up, key)
  \/ Elapse

CacheTtlSpec == Init /\ [][CacheTtlNext]_vars


\* ======================================================== session cache
\* the app passwords clients send, and the one the PDS accepts
Passwords == {"app-password", "wrong"}
PasswordOf(identifier) == "app-password"

\* getAgent: serviceUrl from the last two labels of the handle
ServiceUrlOf(identifier) ==
  IF identifier = "alice.bsky.social" THEN "https://bsky.social"
  ELSE "https://example.com"

createAgent_cacheFirst(identifier, password, loginOk) ==
  [agents |-> [agents EXCEPT ![identifier] =
                  [session |-> loginOk, password |-> password,
                   service |-> ServiceUrlOf(identifier)]],
   outcome |-> IF loginOk THEN "fresh" ELSE "AuthenticationFailed"]

\* createAgent: login, then agents.set on success; the catch rethrows
\* 'Authentication failed: ...' and leaves the map alone
createAgent(identifier, password, loginOk) ==
  IF loginOk
  THEN [agents |-> [agents EXCEPT ![identifier] =
                      [session |-> TRUE, password |-> password,
                       service |-> ServiceUrlOf(identifier)]],
        outcome |-> "fresh"]
  ELSE [agents |-> agents, outcome |-> "AuthenticationFailed"]

\* `cached && cached.session`
HasLiveSession(cached) == ~IsNull(cached) /\ cached.session

\* getAgent(credentials); loginOk is whether the PDS accepts the login
\* (never with a wrong password, and not always with the right one)
getAgent(identifier, password, loginOk) ==
  /\ ops < MaxOps
  /\ ops' = ops + 1
  /\ loginOk => password = PasswordOf(identifier)
  /\ LET cached == agents[identifier]
         made == createAgent(identifier, password, loginOk)
     IN IF HasLiveSession(cached)
        THEN /\ UNCHANGED agents
             /\ res' = [res EXCEPT ![1] =
                   [op |-> "getAgent", identifier |-> identifier,
                    password |-> password, outcome |-> "cached",
                    before |-> cached, agent |-> cached]]
        ELSE /\ agents' = made.agents
             /\ res' = [res EXCEPT ![1] =
                   [op |-> "getAgent", identifier |-> identifier,
                    password |-> password, outcome |-> made.outcome,
                    before |-> cached,
                    agent |-> IF made.outcome = "fresh"
                              THEN made.agents[identifier] ELSE Null]]
  /\ lastp' = 1
  /\ UNCHANGED <<now, rateVars, blobVars, cacheVars, domVars, loc>>

\* the agent of a cached entry loses its session (the PDS rejects its
\* tokens)
SessionLost(identifier) ==
  /\ HasLiveSession(agents[identifier])
  /\ agents' = [agents EXCEPT ![identifier].session = FALSE]
  /\ UNCHANGED <<now, rateVars, blobVars, cacheVars, domVars, loc, res,
               lastp, ops>>

AgentNext ==
  \/ \E o \in Owners, pw \in Passwords, ok \in BOOLEAN : getAgent(o, pw, ok)
  \/ \E o \in Owners : SessionLost(o)

AgentSpec == Init /\ [][AgentNext]_vars


\* ======================================================== sanitizeKey alone
\* the keys sanitizeKey is applied to: a prefix and a suffix of up to
\* MaxAffix characters around a run of one character whose length is
\* zero or close to the slice limit
KeyAlphabet == {"K", "-", "?"}
Affixes ==
  UNION {[1..n -> KeyAlphabet] : n \in 0..MaxAffix}
Fills ==
  {[i \in 1..n |-> c] :
     n \in {0} \cup ((RKEY_MAX_LENGTH - 3)..(RKEY_MAX_LENGTH + 1)),
     c \in {"k", "-"}}
SanitizeInputs == {pre \o fill \o suf :
                     pre \in Affixes, fill \in Fills, suf \in Affixes}

SanitizeInit ==
  /\ InitStores
  /\ \E key \in SanitizeInputs :
       res = [p \in Procs |-> IF p = 1 THEN [op |-> "input", key |-> key]
                              ELSE NoRes]

ApplySanitizeKey ==
  /\ res[1].op = "input"
  /\ res' = [res EXCEPT ![1] = [op |-> "sanitize", key |-> res[1].key,
                                 out |-> sanitizeKey(res[1].key)]]
  /\ UNCHANGED <<now, agents, rateVars, blobVars, cacheVars, domVars, loc, lastp, ops>>

SanitizeSpec == SanitizeInit /\ [][ApplySanitizeKey]_vars


\* ======================================================== PDS endpoint
\* handles as character sequences, to split at the dots
HandleAlphabet == {"a", "b", "."}
Handles == UNION {[1..n -> HandleAlphabet] : n \in 0..MaxHandleLen}
DefaultPdsHost == <<"b", "s", "k", "y", ".", "s", "o", "c", "i", "a", "l">>

\* handle.includes('.')
IncludesDot(s) == \E i \in 1..Len(s) : s[i] = "."

\* handle.split('.')
RECURSIVE SplitDot(_)
SplitDot(s) ==
  IF ~IncludesDot(s) THEN <<s>>
  ELSE LET i == CHOOSE i \in 1..Len(s) :
                  s[i] = "." /\ \A j \in 1..(i - 1) : s[j] # "."
       IN <<SubSeq(s, 1, i - 1)>> \o SplitDot(SubSeq(s, i + 1, Len(s)))

\* parts.slice(-2)
SliceLastTwo(parts) ==
  SubSeq(parts, IF Len(parts) > 2 THEN Len(parts) - 1 ELSE 1, Len(parts))

\* parts.join('.')
RECURSIVE JoinDot(_)
JoinDot(parts) ==
  IF parts = <<>> THEN <<>>
  ELSE IF Len(parts) = 1 THEN parts[1]
  ELSE parts[1] \o <<".">> \o JoinDot(Tail(parts))

HttpsUrl(host) == [scheme |-> "https", host |-> host]

extractPdsFromHandle_lastLabel(handle) ==
  IF IncludesDot(handle) /\ Len(SplitDot(handle)) >= 2
  THEN HttpsUrl(SplitDot(handle)[Len(SplitDot(handle))])
  ELSE HttpsUrl(DefaultPdsHost)

\* DomainRegistryService.extractPdsFromHandle
extractPdsFromHandle(handle) ==
  IF IncludesDot(handle) /\ Len(SplitDot(handle)) >= 2
  THEN HttpsUrl(JoinDot(SliceLastTwo(SplitDot(handle))))
  ELSE HttpsUrl(DefaultPdsHost)

\* getAgent called without serviceUrl: the inferred one, or undefined and
\* then createAgent's default parameter 'https://bsky.social'
getAgentServiceUrl(identifier) ==
  LET inferred ==
        IF IncludesDot(identifier) /\ Len(SplitDot(identifier)) >= 2
        THEN HttpsUrl(JoinDot(SliceLastTwo(SplitDot(identifier))))
        ELSE Null
  IN IF IsNull(inferred) THEN HttpsUrl(DefaultPdsHost) ELSE inferred

HandleInit ==
  /\ InitStores
  /\ \E h \in Handles :
       res = [p \in Procs |-> IF p = 1 THEN [op |-> "handle", handle |-> h]
                              ELSE NoRes]

ApplyExtractPds ==
  /\ res[1].op = "handle"
  /\ res' = [res EXCEPT ![1] =
        [op |-> "pds", handle |-> res[1].handle,
         pds |-> extractPdsFromHandle(res[1].handle),
         serviceUrl |-> getAgentServiceUrl(res[1].handle)]]
  /\ UNCHANGED <<now, agents, rateVars, blobVars, cacheVars, domVars, loc, lastp, ops>>

HandleSpec == HandleInit /\ [][ApplyExtractPds]_vars

\* ------------------------------------------------ listVersions alone
\* the response of GET /blobs/:key/versions as a function of the record
\* read: the records are drawn, with up to MaxVersions entries whose
\* uploadedAt may coincide, and with or without a versions map
MaxVersions == 3

ListRecords ==
  LET entries ==
        {[cid |-> "c", mimeType |-> "image/png", size |-> 4,
          uploadedAt |-> u, version |-> v, comment |-> "note"] :
           u \in {1, 2}, v \in 1..MaxVersions}
      lists ==
        {vs \in UNION {[1..n -> entries] : n \in 0..MaxVersions} :
           \A i, j \in 1..Len(vs) : i # j => vs[i].version # vs[j].version}
  IN {[key |-> <<"k">>,
       current |-> createBlobInfo("png1", "image/png", 1),
       createdAt |-> 1, updatedAt |-> 1,
       versioningEnabled |-> "s:true",
       hasVersions |-> TRUE, versions |-> vs] : vs \in lists}
     \cup {NewRecord(<<"k">>, createBlobInfo("png1", "image/png", 1),
                      "undefined", 1, 1)}

ListInit ==
  /\ InitStores
  /\ \E rec \in ListRecords :
       res = [p \in Procs |-> IF p = 1 THEN [op |-> "record", record |-> rec]
                              ELSE NoRes]

ApplyListVersions ==
  /\ res[1].op = "record"
  /\ res' = [res EXCEPT ![1] =
        [op |-> "listed", record |-> res[1].record,
         response |-> ListVersionsResponse(res[1].record.key,
                                           res[1].record)]]
  /\ UNCHANGED <<now, agents, rateVars, blobVars, cacheVars, domVars, loc, lastp, ops>>

ListSpec == ListInit /\ [][ApplyListVersions]_vars


\* ======================================================== domain registry
StatusArgs == {"undefined", "suspended", "pending"}
SettingsArgs == {Null, [publicAccess |-> FALSE]}

DidOf(owner) == <<"did", owner>>

DefaultSettings == [publicAccess |-> TRUE, maxFileSize |-> 50]

\* { ...a, ...b }
Spread(a, b) ==
  [f \in DOMAIN a \cup DOMAIN b |-> IF f \in DOMAIN b THEN b[f] ELSE a[f]]

findDomainMapping(domain) == domainMap[domain]

DomainTaken_never(existingMapping) == FALSE

\* `if (existingMapping)` of POST /domains
DomainTaken(existingMapping) == ~IsNull(existingMapping)

DBegin(p) ==
  /\ loc[p].pc = "idle"
  /\ ops < MaxDomOps
  /\ ops' = ops + 1

\* ------------------------------------------------ POST /domains
StartRegister(p, owner, domain) ==
  /\ DBegin(p)
  /\ loc' = [loc EXCEPT ![p] = [op |-> "register", pc |-> "reg_find",
                                owner |-> owner, domain |-> domain,
                                findFailed |-> FALSE]]
  /\ UNCHANGED <<now, agents, rateVars, blobVars, cacheVars, domVars, res, lastp>>

RegisterFind(p) ==
  /\ loc[p].pc = "reg_find"
  /\ LET l == loc[p]
         existingMapping == findDomainMapping(l.domain)
     IN IF DomainTaken(existingMapping)
        THEN Respond(p, [op |-> "register", owner |-> l.owner,
                         domain |-> l.domain, status |-> 409,
                         error |-> "DOMAIN_ALREADY_REGISTERED"])
        ELSE /\ loc' = [loc EXCEPT ![p].pc = "reg_write"]
             /\ UNCHANGED <<res, lastp>>
  /\ UNCHANGED <<now, agents, rateVars, blobVars, cacheVars, domVars, ops>>

\* DomainRegistryService.registerDomain: one MULTI/EXEC
registerDomain(mapping) ==
  /\ domainMap' = [domainMap EXCEPT ![mapping.domain] = mapping]
  /\ domainExp' = [domainExp EXCEPT ![mapping.domain] =
                      now + DOMAIN_MAPPING_TTL]
  /\ userDomains' = [userDomains EXCEPT ![mapping.userHandle] =
                        @ \cup {mapping.domain}]
  /\ allDomains' = allDomains \cup {mapping.domain}

RegisterWrite(p) ==
  /\ loc[p].pc = "reg_write"
  /\ LET l == loc[p]
         mapping == [domain |-> l.domain, userHandle |-> l.owner,
                     userDid |-> DidOf(l.owner), createdAt |-> now,
                     updatedAt |-> now, status |-> "active",
                     settings |-> DefaultSettings]
     IN /\ registerDomain(mapping)
        /\ Respond(p, [op |-> "register", owner |-> l.owner,
                       domain |-> l.domain, status |-> 201,
                       error |-> "none", findFailed |-> l.findFailed])
        /\ dghost' = [dghost EXCEPT ![l.domain] =
              [winners |-> @.winners + 1,
               regOwner |-> IF @.regOwner = "none" THEN l.owner
                            ELSE @.regOwner,
               deletedBy |-> @.deletedBy]]
  /\ UNCHANGED <<now, agents, rateVars, blobVars, cacheVars, ops>>

\* ------------------------------------------------ PUT /domains/:domain
StartUpdate(p, owner, domain, status, settings) ==
  /\ DBegin(p)
  /\ loc' = [loc EXCEPT ![p] = [op |-> "update", pc |-> "upd_find",
                                owner |-> owner, domain |-> domain,
                                status |-> status, settings |-> settings,
                                atStart |-> [mapping |-> domainMap[domain],
                                             exp |-> domainExp[domain],
                                             userDomains |-> userDomains,
                                             allDomains |-> allDomains]]]
  /\ UNCHANGED <<now, agents, rateVars, blobVars, cacheVars, domVars, res, lastp>>

\* the updates object of the route
UpdatesOf(mapping, status, settings) ==
  Spread(IF status \in {"active", "suspended"}
         THEN [status |-> status] ELSE <<>>,
         IF ~IsNull(settings)
         THEN [settings |-> Spread(mapping.settings, settings)] ELSE <<>>)

UpdateRouteFind(p) ==
  /\ loc[p].pc = "upd_find"
  /\ LET l == loc[p]
         mapping == findDomainMapping(l.domain)
         fail(code, err) ==
           Respond(p, [op |-> "update", owner |-> l.owner,
                       domain |-> l.domain, status |-> code, error |-> err,
                       atStart |-> l.atStart])
     IN IF IsNull(mapping) THEN fail(404, "DOMAIN_NOT_FOUND")
        ELSE IF mapping.userHandle # l.owner THEN fail(403, "FORBIDDEN")
        ELSE IF DOMAIN UpdatesOf(mapping, l.status, l.settings) = {}
        THEN fail(400, "NO_UPDATES")
        ELSE /\ loc' = [loc EXCEPT ![p] =
                  [op |-> "update", pc |-> "upd_svc", owner |-> l.owner,
                   domain |-> l.domain, atStart |-> l.atStart,
                   updates |-> UpdatesOf(mapping, l.status, l.settings)]]
             /\ UNCHANGED <<res, lastp>>
  /\ UNCHANGED <<now, agents, rateVars, blobVars, cacheVars, domVars, ops>>

\* DomainRegistryService.updateDomain: the read of the existing mapping
UpdateServiceFind(p) ==
  /\ loc[p].pc = "upd_svc"
  /\ LET l == loc[p]
         existing == findDomainMapping(l.domain)
     IN IF IsNull(existing)
        THEN Respond(p, [op |-> "update", owner |-> l.owner,
                         domain |-> l.domain, status |-> 500,
                         error |-> "UPDATE_FAILED", atStart |-> l.atStart])
        ELSE /\ loc' = [loc EXCEPT ![p] =
                  [op |-> "update", pc |-> "upd_write", owner |-> l.owner,
                   domain |-> l.domain, updates |-> l.updates,
                   existing |-> existing, atStart |-> l.atStart]]
             /\ UNCHANGED <<res, lastp>>
  /\ UNCHANGED <<now, agents, rateVars, blobVars, cacheVars, domVars, ops>>

UpdatedMapping_newCreatedAt(existing, updates, t) ==
  Spread(Spread(existing, updates), [updatedAt |-> t, createdAt |-> t])

\* { ...existing, ...updates, updatedAt: new Date().toISOString() }
UpdatedMapping(existing, updates, t) ==
  Spread(Spread(existing, updates), [updatedAt |-> t])

\* DomainRegistryService.updateDomain: the SETEX of the updated mapping
UpdateWrite(p) ==
  /\ loc[p].pc = "upd_write"
  /\ LET l == loc[p]
         updated == UpdatedMapping(l.existing, l.updates, now)
     IN /\ domainMap' = [domainMap EXCEPT ![l.domain] = updated]
        /\ domainExp' = [domainExp EXCEPT ![l.domain] =
                            now + DOMAIN_MAPPING_TTL]
        /\ loc' = [loc EXCEPT ![p] =
              [op |-> "update", pc |-> "upd_refetch", owner |-> l.owner,
               domain |-> l.domain, atStart |-> l.atStart]]
  /\ UNCHANGED <<now, agents, rateVars, blobVars, cacheVars, userDomains, allDomains, dghost,
                 res, lastp, ops>>

UpdateRefetch(p) ==
  /\ loc[p].pc = "upd_refetch"
  /\ Respond(p, [op |-> "update", owner |-> loc[p].owner,
                 domain |-> loc[p].domain, status |-> 200,
                 error |-> "none", atStart |-> loc[p].atStart,
                 mapping |-> findDomainMapping(loc[p].domain)])
  /\ UNCHANGED <<now, agents, rateVars, blobVars, cacheVars, domVars, ops>>

\* ------------------------------------------------ DELETE /domains/:domain
StartDeleteDomain(p, owner, domain) ==
  /\ DBegin(p)
  /\ loc' = [loc EXCEPT ![p] = [op |-> "ddelete", pc |-> "dd_find",
                                owner |-> owner, domain |-> domain]]
  /\ UNCHANGED <<now, agents, rateVars, blobVars, cacheVars, domVars, res, lastp>>

DeleteDomainFind(p) ==
  /\ loc[p].pc = "dd_find"
  /\ LET l == loc[p]
         mapping == findDomainMapping(l.domain)
         fail(code, err) ==
           Respond(p, [op |-> "ddelete", owner |-> l.owner,
                       domain |-> l.domain, status |-> code, error |-> err])
     IN IF IsNull(mapping) THEN fail(404, "DOMAIN_NOT_FOUND")
        ELSE IF mapping.userHandle # l.owner THEN fail(403, "FORBIDDEN")
        ELSE /\ loc' = [loc EXCEPT ![p].pc = "dd_write"]
             /\ UNCHANGED <<res, lastp>>
  /\ UNCHANGED <<now, agents, rateVars, blobVars, cacheVars, domVars, ops>>

deleteDomain_keepGlobal(domain, userHandle) ==
  /\ domainMap' = [domainMap EXCEPT ![domain] = Null]
  /\ domainExp' = [domainExp EXCEPT ![domain] = 0]
  /\ userDomains' = [userDomains EXCEPT ![userHandle] = @ \ {domain}]
  /\ allDomains' = allDomains

\* DomainRegistryService.deleteDomain: one MULTI/EXEC
deleteDomain(domain, userHandle) ==
  /\ domainMap' = [domainMap EXCEPT ![domain] = Null]
  /\ domainExp' = [domainExp EXCEPT ![domain] = 0]
  /\ userDomains' = [userDomains EXCEPT ![userHandle] = @ \ {domain}]
  /\ allDomains' = allDomains \ {domain}

DeleteDomainWrite(p) ==
  /\ loc[p].pc = "dd_write"
  /\ deleteDomain(loc[p].domain, loc[p].owner)
  /\ Respond(p, [op |-> "ddelete", owner |-> loc[p].owner,
                 domain |-> loc[p].domain, status |-> 200,
                 error |-> "none"])
  /\ dghost' = [dghost EXCEPT ![loc[p].domain] =
                   [winners |-> 0, regOwner |-> "none",
                    deletedBy |-> loc[p].owner]]
  /\ UNCHANGED <<now, agents, rateVars, blobVars, cacheVars, ops>>

\* ------------------------------------------------ resolve(domain)
Resolve(p, domain) ==
  /\ DBegin(p)
  /\ res' = [res EXCEPT ![p] = [op |-> "resolve", domain |-> domain,
                                mapping |-> findDomainMapping(domain),
                                storeFailed |-> FALSE, error |-> "none"]]
  /\ lastp' = p
  /\ UNCHANGED <<now, agents, rateVars, blobVars, cacheVars, domVars, loc>>

RaceDomains == {"cdn.one.org"}

DomStart(p, DS) ==
  \/ \E o \in Owners, d \in DS : StartRegister(p, o, d)
  \/ \E o \in Owners, d \in DS, st \in StatusArgs, se \in SettingsArgs :
        StartUpdate(p, o, d, st, se)
  \/ \E o \in Owners, d \in DS : StartDeleteDomain(p, o, d)
  \/ \E d \in DS : Resolve(p, d)

DomStep(p) ==
  \/ RegisterFind(p)
  \/ RegisterWrite(p)
  \/ UpdateRouteFind(p)
  \/ UpdateServiceFind(p)
  \/ UpdateWrite(p)
  \/ UpdateRefetch(p)
  \/ DeleteDomainFind(p)
  \/ DeleteDomainWrite(p)

\* one request at a time
DomSeqNext ==
  \/ AllIdle /\ DomStart(1, Domains)
  \/ DomStep(1)
  \/ Tick

DomSeqSpec == Init /\ [][DomSeqNext]_vars

\* ------------------------------------------------ GET /blobs/:key by host
\* the Host header values and Authorization headers of the requests
Hosts == {"localhost", "127.0.0.1", "api.bucket.social",
          "bucket.social.evil.org", "cdn.one.org", "cdn.two.org"}
AuthHeaders == {"none"} \cup Owners

\* domainDetectionMiddleware for a GET whose path starts with /blobs/:
\* "next", or the error it answers with
\* domain.includes('bucket.social') holds for the hosts of the menu that
\* contain that substring, wherever it stands in the name
domainDetectionMiddleware(host, mapping) ==
  IF host \in {"localhost", "127.0.0.1"} THEN "next"
  ELSE IF host \in {"api.bucket.social", "bucket.social.evil.org"}
  THEN "next"
  ELSE IF ~IsNull(mapping) THEN "next"
  ELSE "DOMAIN_NOT_REGISTERED"

\* authMiddleware of the blob router (router.use): "next", or the error
authMiddleware(auth) ==
  IF auth = "none" THEN "UNAUTHORIZED" ELSE "next"

\* app.use(domainDetectionMiddleware), then the blob router's
\* router.use(authMiddleware), then validateKeyMiddleware, then the
\* handler (its record lookup is GetRecord)
HostGet(p, host, auth, key) ==
  /\ Begin(p)
  /\ LET mapping == IF domainDetectionMiddleware(host, Null) = "next"
                    THEN Null
                    ELSE findDomainMapping(host)
         reject(code, err) ==
           /\ res' = [res EXCEPT ![p] =
                 [op |-> "hostget", key |-> key, host |-> host,
                  auth |-> auth, domainMapping |-> mapping,
                  status |-> code, error |-> err]]
           /\ lastp' = p
           /\ UNCHANGED loc
     IN IF domainDetectionMiddleware(host, mapping) # "next"
        THEN reject(404, domainDetectionMiddleware(host, mapping))
        ELSE IF authMiddleware(auth) # "next"
        THEN reject(401, authMiddleware(auth))
        ELSE IF validateKey(key) # "ok"
        THEN reject(400, validateKey(key))
        ELSE /\ loc' = [loc EXCEPT ![p] =
                  [op |-> "get", pc |-> "get_rec", key |-> key,
                   version |-> NoVersion, host |-> host, auth |-> auth,
                   domainMapping |-> mapping]]
             /\ UNCHANGED <<res, lastp>>
  /\ UNCHANGED <<now, agents, rateVars, blobVars, cacheVars, domVars>>

HostNext ==
  \/ AllIdle /\ \E o \in Owners, d \in RaceDomains : StartRegister(1, o, d)
  \/ RegisterFind(1)
  \/ RegisterWrite(1)
  \/ AllIdle /\ \E file \in Files :
        StartUpload(1, <<"k">>, file, "undefined", "note")
  \/ UploadGetRecord(1)
  \/ UploadBlob(1)
  \/ UploadPut(1)
  \/ UploadRespond(1)
  \/ AllIdle /\ \E host \in Hosts, auth \in AuthHeaders, key \in SeqKeys :
        HostGet(1, host, auth, key)
  \/ GetRecord(1)
  \/ GetDownload(1)
  \/ Tick

HostSpec == Init /\ [][HostNext]_vars


\* ------------------------------------------------ registry store failures
\* findDomainMapping when connect() or GET throws: the catch logs the
\* error and returns null
findDomainMappingFailed(domain) == Null

ResolveFailed(p, domain) ==
  /\ DBegin(p)
  /\ res' = [res EXCEPT ![p] = [op |-> "resolve", domain |-> domain,
                                mapping |-> findDomainMappingFailed(domain),
                                storeFailed |-> TRUE, error |-> "none"]]
  /\ lastp' = p
  /\ UNCHANGED <<now, agents, rateVars, blobVars, cacheVars, domVars, loc>>

\* POST /domains when the existence check hits a failing store
RegisterFindFailed(p) ==
  /\ loc[p].pc = "reg_find"
  /\ LET l == loc[p]
         existingMapping == findDomainMappingFailed(l.domain)
     IN IF DomainTaken(existingMapping)
        THEN Respond(p, [op |-> "register", owner |-> l.owner,
                         domain |-> l.domain, status |-> 409,
                         error |-> "DOMAIN_ALREADY_REGISTERED"])
        ELSE /\ loc' = [loc EXCEPT ![p].pc = "reg_write",
                                   ![p].findFailed = TRUE]
             /\ UNCHANGED <<res, lastp>>
  /\ UNCHANGED <<now, agents, rateVars, blobVars, cacheVars, domVars, ops>>

\* registerDomain when the store fails: the catch returns false and the
\* route answers 500 REGISTRATION_FAILED
RegisterWriteFailed(p) ==
  /\ loc[p].pc = "reg_write"
  /\ Respond(p, [op |-> "register", owner |-> loc[p].owner,
                 domain |-> loc[p].domain, status |-> 500,
                 error |-> "REGISTRATION_FAILED",
                 findFailed |-> loc[p].findFailed])
  /\ UNCHANGED <<now, agents, rateVars, blobVars, cacheVars, domVars, ops>>

DomFaultStep(p) ==
  \/ RegisterFindFailed(p)
  \/ RegisterWriteFailed(p)

\* one request at a time, each store call may fail
DomFaultNext ==
  \/ AllIdle /\ DomStart(1, RaceDomains)
  \/ AllIdle /\ \E d \in RaceDomains : ResolveFailed(1, d)
  \/ DomStep(1)
  \/ DomFaultStep(1)
  \/ Tick

DomFaultSpec == Init /\ [][DomFaultNext]_vars


\* requests of the two processes interleave at every await
DomNext ==
  \/ \E p \in Procs : DomStart(p, RaceDomains)
  \/ \E p \in Procs : DomStep(p)
  \/ Tick

DomSpec == Init /\ [][DomNext]_vars

\* ======================================================== blob claims
LastRes == res[lastp]
GhostOf(key) == ghost[sanitizeKey(key)]

C2_ArchivesPrevious ==
  LET r == LastRes
  IN (/\ r.op = "upload" /\ r.status = 200
      /\ Truthy(r.shouldVersion)
      /\ r.blobInfo.uploadedAt \notin VKeys(VersionsOf(r.existing)))
     => /\ \E id \in VKeys(r.record.versions) \ VKeys(VersionsOf(r.existing)) :
              BlobInfoOf(VGet(r.record.versions, id)) = r.existing.current
        /\ \A id \in VKeys(VersionsOf(r.existing)) :
              /\ VHas(r.record.versions, id)
              /\ VGet(r.record.versions, id) = VGet(r.existing.versions, id)
        /\ r.record.current = r.blobInfo
        /\ (VersionsOf(r.existing) = <<>>
              => /\ Len(r.record.versions) = 1
                 /\ BlobInfoOf(r.record.versions[1]) = r.existing.current)

\* C3: versioning enabled from the first upload, N completed uploads at
\* pairwise distinct timestamps and no version deletion: listVersions
\* answers N-1 versions and the current BlobInfo
C3_ListCount ==
  LET r == LastRes
  IN (/\ r.op = "list" /\ r.status = 200
      /\ GhostOf(r.key).createdVersioned
      /\ ~GhostOf(r.key).collide
      /\ ~GhostOf(r.key).vdel)
     => /\ Len(r.versions) = GhostOf(r.key).nUp - 1
        /\ r.current = GhostOf(r.key).lastUp.info

C3_Witness ==
  /\ LastRes.op = "list" /\ LastRes.status = 200
  /\ GhostOf(LastRes.key).createdVersioned
  /\ ~GhostOf(LastRes.key).collide
  /\ ~GhostOf(LastRes.key).vdel
  /\ GhostOf(LastRes.key).nUp = 3
  /\ Len(LastRes.versions) = 2

\* C4: with no request in flight, the stored record's current is the
\* BlobInfo of the most recently completed upload
C4_CurrentIsLatestUpload ==
  AllIdle =>
    \A rk \in RKeys :
      ghost[rk].lastWrite \in {"upload", "vdelete"}
        => /\ ~IsNull(repo[rk])
           /\ repo[rk].current = ghost[rk].lastUp.info

C4_Witness ==
  /\ AllIdle
  /\ \E rk \in RKeys :
       /\ ghost[rk].lastWrite = "vdelete"
       /\ ghost[rk].nUp >= 2
       /\ repo[rk].current = ghost[rk].lastUp.info

\* C5: for a record created with versioning, no version deletion and
\* uploads at distinct timestamps, every superseded BlobInfo is an entry
\* of versions
C5_SupersededArchived ==
  AllIdle =>
    \A rk \in RKeys :
      (/\ ~IsNull(repo[rk])
       /\ ghost[rk].createdVersioned
       /\ ~ghost[rk].vdel
       /\ ~ghost[rk].collide)
      => \A b \in ghost[rk].superseded :
            \E i \in 1..Len(VersionsOf(repo[rk])) :
               BlobInfoOf(repo[rk].versions[i]) = b

\* C6: with a mapping entry cached for the key, a get that follows a
\* successful full delete answers BLOB_NOT_FOUND
C6_GetAfterDelete ==
  LET r == LastRes
  IN (/\ r.op = "get" /\ r.status # 400
      /\ GhostOf(r.key).lastWrite = "delete"
      /\ ~IsNull(cacheMapping[r.key]))
     => /\ r.status = 404
        /\ r.error = "BLOB_NOT_FOUND"

C6_Witness ==
  /\ LastRes.op = "get" /\ LastRes.status = 404
  /\ LastRes.error = "BLOB_NOT_FOUND"
  /\ GhostOf(LastRes.key).lastWrite = "delete"
  /\ ~IsNull(cacheMapping[LastRes.key])

\* C10: a get with a version that is not a key of the record's versions
\* (or whose record has no versions) answers VERSION_NOT_FOUND and never
\* reaches the download
C10_UnknownVersion ==
  /\ LET r == LastRes
     IN (/\ r.op = "get" /\ r.status # 400
         /\ r.recordFound
         /\ r.version # NoVersion
         /\ ~r.versionKnown)
        => /\ r.status = 404
           /\ r.error = "VERSION_NOT_FOUND"
  /\ \A p \in Procs :
        (loc[p].pc = "get_dl" /\ loc[p].version # NoVersion)
          => loc[p].versionKnown


\* ======================================================== domain claims
\* C7: in a sequential run the first registrant of a domain keeps it: the
\* domain resolves to that owner, a register of it by another owner is
\* answered 409 DOMAIN_ALREADY_REGISTERED, and a resolve reports the first
\* registrant
C7_FirstRegistrantKeeps ==
  /\ \A d \in Domains :
        dghost[d].regOwner # "none"
          => /\ ~IsNull(domainMap[d])
             /\ domainMap[d].userHandle = dghost[d].regOwner
             /\ \A o \in Owners :
                   d \in userDomains[o] <=> o = dghost[d].regOwner
  /\ LET r == LastRes
     IN /\ (/\ r.op = "register"
            /\ dghost[r.domain].regOwner # "none"
            /\ dghost[r.domain].regOwner # r.owner)
           => /\ r.status = 409
              /\ r.error = "DOMAIN_ALREADY_REGISTERED"
        /\ (r.op = "resolve" /\ dghost[r.domain].regOwner # "none")
           => /\ ~IsNull(r.mapping)
              /\ r.mapping.userHandle = dghost[r.domain].regOwner

C7_Witness ==
  /\ LastRes.op = "register"
  /\ LastRes.status = 409
  /\ dghost[LastRes.domain].regOwner # "none"
  /\ dghost[LastRes.domain].regOwner # LastRes.owner
  /\ domainMap[LastRes.domain].userHandle = dghost[LastRes.domain].regOwner

\* C8: every resolvable domain is a member of the domain-set of the owner
\* its mapping names, in every reachable state of interleaved requests
C8_ResolvableInOwnerSet ==
  \A d \in Domains :
    ~IsNull(domainMap[d]) => d \in userDomains[domainMap[d].userHandle]

\* C9: of the register requests for a domain that was unregistered, exactly
\* one succeeds, and the domain is in the domain-set of the winner only
C9_OneWinner ==
  \A d \in Domains :
    /\ dghost[d].winners <= 1
    /\ Cardinality({o \in Owners : d \in userDomains[o]}) <= 1

\* C11: a successful deleteBlob of a version leaves the stored record equal
\* to the record it read without that one versions entry (the other
\* entries, their order, current, key and createdAt are the same), and a
\* deleteBlob of a version the record does not have answers 404
\* VERSION_NOT_FOUND and leaves the stored record as it was
C11_VersionDeleteFrame ==
  LET r == LastRes
      after == repo[sanitizeKey(r.key)]
  IN (r.op = "delete" /\ AllIdle /\ r.status \in {200, 404}
      /\ r.error # "BLOB_NOT_FOUND" /\ r.version # NoVersion)
     => IF r.status = 200
        THEN /\ VHas(VersionsOf(r.before), r.version)
             /\ ~IsNull(after)
             /\ after.versions
                  = SelectSeq(r.before.versions,
                              LAMBDA e : e.version # r.version)
             /\ Len(after.versions) = Len(r.before.versions) - 1
             /\ after.current = r.before.current
             /\ after.key = r.before.key
             /\ after.createdAt = r.before.createdAt
             /\ after.versioningEnabled = r.before.versioningEnabled
        ELSE /\ r.error = "VERSION_NOT_FOUND"
             /\ ~VHas(VersionsOf(r.before), r.version)
             /\ after = r.before

\* a version was deleted from a record that held two
C11_Witness ==
  /\ LastRes.op = "delete" /\ LastRes.status = 200 /\ AllIdle
  /\ LastRes.version # NoVersion
  /\ Len(LastRes.before.versions) = 2
  /\ Len(repo[sanitizeKey(LastRes.key)].versions) = 1

\* C12: a blob request whose key is longer than 255 characters or holds a
\* forbidden character never enters its handler (no adapter call is made
\* for it): it is answered 400 KEY_TOO_LONG or INVALID_KEY_CHARACTERS in a
\* step that leaves the repository, the blobs and the cache as they were
C12_InvalidKeyRejected ==
  [][\A p \in Procs :
       LET bad(key) == \/ Len(key) > KEY_MAX_LENGTH
                       \/ \E i \in 1..Len(key) : key[i] \in InvalidKeyChars
           blobOps == {"upload", "get", "list", "delete"}
       IN /\ (loc[p].pc = "idle" /\ loc'[p].pc # "idle"
               /\ loc'[p].op \in blobOps) => ~bad(loc'[p].key)
          /\ (loc[p].pc = "idle" /\ ops' # ops /\ res'[p] # res[p]
               /\ res'[p].op \in blobOps)
             => /\ bad(res'[p].key)
                /\ res'[p].status = 400
                /\ res'[p].error
                     = (IF Len(res'[p].key) > KEY_MAX_LENGTH
                        THEN "KEY_TOO_LONG" ELSE "INVALID_KEY_CHARACTERS")
                /\ UNCHANGED <<repo, blobs, cacheVars, loc>>]_vars

\* an upload under the 256-character key was answered 400
C12_Witness ==
  /\ LastRes.op = "upload" /\ LastRes.status = 400
  /\ LastRes.key = LongKey /\ LastRes.error = "KEY_TOO_LONG"
  /\ \A rk \in RKeys : IsNull(repo[rk])

\* C13: when an upload, a version delete or a full delete has been
\* answered with success, the cache holds for that key either nothing or
\* the record now stored (mapping entry) and its current blob (metadata
\* entry)
C13_CacheFreshOnSuccess ==
  LET r == LastRes
  IN (r.op \in {"upload", "delete"} /\ r.status \in {200, 201} /\ AllIdle)
     => /\ \/ IsNull(cacheMapping[r.key])
           \/ cacheMapping[r.key] = repo[sanitizeKey(r.key)]
        /\ \/ IsNull(cacheMeta[r.key])
           \/ /\ ~IsNull(repo[sanitizeKey(r.key)])
              /\ cacheMeta[r.key] = repo[sanitizeKey(r.key)].current

\* C14: a successful get returns the BlobInfo the stored record holds
\* (current, or the versions entry asked for) whatever the cache holds for
\* the key, and a get that directly follows a successful get of the same
\* key and version returns the same BlobInfo
C14_RepeatedGet ==
  LET r == LastRes
      record == repo[sanitizeKey(r.key)]
  IN (r.op = "get" /\ r.status = 200 /\ AllIdle)
     => /\ ~IsNull(record)
        /\ r.blobInfo = (IF r.xVersion = NoVersion THEN record.current
                         ELSE BlobInfoOf(VGet(record.versions, r.xVersion)))
        /\ ~IsNull(r.prev) => r.blobInfo = r.prev

\* the second of two successive gets, served while the cache holds an
\* entry for the key
C14_Witness ==
  /\ LastRes.op = "get" /\ LastRes.status = 200 /\ AllIdle
  /\ ~IsNull(LastRes.prev)
  /\ ~IsNull(cacheMapping[LastRes.key])

\* C15: a cache call made while the cache store does not answer returns
\* its failure indicator (null for getBlobMapping and getBlobMetadata,
\* false for the set, update and invalidate methods, the empty list for
\* getUserBlobKeys) and does not raise
C15_CacheFailureIndicator ==
  LET r == LastRes
  IN (r.op = "cache" /\ ~r.up)
     => /\ ~r.threw
        /\ IF r.method \in {"getBlobMapping", "getBlobMetadata"}
           THEN IsNull(r.ret)
           ELSE IF r.method = "getUserBlobKeys" THEN r.ret = {}
           ELSE r.ret = FALSE

\* the key list was asked for while the store was down and entries were
\* cached
C15_Witness ==
  /\ LastRes.op = "cache" /\ ~LastRes.up
  /\ LastRes.method = "getUserBlobKeys"
  /\ userBlobs # {}

\* C16: a registry lookup during which the store failed is answered with
\* an error, not with "no mapping", and a register request whose
\* existence check hit a failing store is answered 500 and writes nothing
C16_StoreFailureSurfaced ==
  LET r == LastRes
  IN /\ (r.op = "resolve" /\ r.storeFailed) => r.error # "none"
     /\ (r.op = "register" /\ r.status \in {201, 500} /\ r.findFailed)
        => r.status = 500
     /\ \A p \in Procs :
          (loc[p].op = "register" /\ loc[p].pc = "reg_write")
          => ~loc[p].findFailed

\* C17: an upload or deleteBlob during which an adapter call failed is
\* answered 500, and the stored record of its key is the one stored when
\* the request began
C17_AdapterFailureReported ==
  LET r == LastRes
  IN (r.op \in {"upload", "delete"} /\ "failedAt" \in DOMAIN r)
     => /\ r.status = 500
        /\ r.error \in {"UPLOAD_FAILED", "DELETION_FAILED"}
        /\ AllIdle => repo[sanitizeKey(r.key)] = r.atStart

\* putMappingRecord failed during the upload that would have replaced a
\* stored record
C17_Witness ==
  /\ LastRes.op = "upload" /\ "failedAt" \in DOMAIN LastRes /\ AllIdle
  /\ LastRes.failedAt = "up_put"
  /\ ~IsNull(LastRes.atStart)
  /\ repo[sanitizeKey(LastRes.key)] = LastRes.atStart

\* C18: a GET of /blobs/:key whose Host is a registered custom domain and
\* which carries no credentials is not answered 401: it is admitted and
\* reaches the record lookup
C18_PublicGetAdmitted ==
  /\ LET r == LastRes
     IN (r.op = "hostget" /\ r.auth = "none" /\ ~IsNull(r.domainMapping))
        => r.status # 401
  /\ \A d \in RaceDomains :
       (AllIdle /\ ~IsNull(domainMap[d]) /\ ops < MaxOps)
       => ENABLED (HostGet(1, d, "none", <<"k">>) /\ loc'[1].pc = "get_rec")

\* C19 (as stated): getAgent returns the cached agent exactly when it has
\* a live session, and after a failed login no agent is cached for the
\* identifier
C19_NoAgentAfterFailedLogin ==
  LET r == LastRes
  IN r.op = "getAgent"
     => /\ (r.outcome = "cached") <=> HasLiveSession(r.before)
        /\ r.outcome = "AuthenticationFailed"
           => IsNull(agents[r.identifier])

\* C19 (amended): getAgent returns the cached agent exactly when it has a
\* live session and otherwise logs in; a fresh login caches the new agent,
\* and a failed login is answered with the authentication failure and
\* leaves the cache entry of the identifier as it was, which is absent or
\* an agent without a live session
C19_FailedLoginCachesNothing ==
  LET r == LastRes
  IN r.op = "getAgent"
     => /\ (r.outcome = "cached") <=> HasLiveSession(r.before)
        /\ r.outcome = "cached" => r.agent = r.before
        /\ r.outcome = "fresh"
           => /\ r.agent.session /\ r.agent.password = r.password
              /\ ~IsNull(agents[r.identifier])
        /\ r.outcome = "AuthenticationFailed"
           => /\ agents[r.identifier] = r.before
              /\ ~HasLiveSession(agents[r.identifier])

\* a login failed for an identifier whose cached agent had lost its
\* session
C19_Witness ==
  /\ LastRes.op = "getAgent"
  /\ LastRes.outcome = "AuthenticationFailed"
  /\ ~IsNull(LastRes.before)
  /\ ~IsNull(agents[LastRes.identifier])

\* C20: sanitizeKey(key) is the key lower-cased, with every character
\* outside [a-z0-9.-] replaced by '-', without its leading and trailing
\* '-', cut to its first 64 characters; so it has at most 64 characters,
\* all in [a-z0-9.-], and it is the same for the key written in lower
\* case
C20_SanitizeReference ==
  LET r == LastRes
      low(c) == IF c \in {"k", "K"} THEN "k"
                ELSE IF c \in {"j", "J"} THEN "j" ELSE c
      rep(k) == [i \in 1..Len(k) |->
                   IF low(k[i]) \in {"k", "j", "0", "."} THEN low(k[i])
                   ELSE "-"]
      solid(k) == {i \in 1..Len(k) : rep(k)[i] # "-"}
      first(k) == CHOOSE i \in solid(k) : \A j \in solid(k) : i <= j
      last(k) == CHOOSE i \in solid(k) : \A j \in solid(k) : j <= i
      ref(k) == IF solid(k) = {} THEN <<>>
                ELSE SubSeq(rep(k), first(k),
                            IF last(k) - first(k) + 1 > 64
                            THEN first(k) + 63 ELSE last(k))
  IN r.op = "sanitize"
     => /\ r.out = ref(r.key)
        /\ Len(r.out) <= 64
        /\ \A i \in 1..Len(r.out) : r.out[i] \in {"k", "j", "0", ".", "-"}
        /\ r.out = sanitizeKey([i \in 1..Len(r.key) |-> low(r.key[i])])

\* a key of more than 64 characters with an upper-case letter and a
\* character to replace was sanitized to 64 characters
C20_Witness ==
  /\ LastRes.op = "sanitize"
  /\ Len(LastRes.key) > 64
  /\ \E i \in 1..Len(LastRes.key) : LastRes.key[i] = "K"
  /\ \E i \in 1..Len(LastRes.key) : LastRes.key[i] = "?"
  /\ Len(LastRes.out) = 64

\* C21: the PDS endpoint of a handle is https:// and what follows the
\* last-but-one dot of the handle (the whole handle when it has one dot),
\* or https://bsky.social when the handle has no dot; the service URL
\* getAgent uses for the handle is the same
C21_PdsEndpoint ==
  LET r == LastRes
      h == r.handle
      dots == {i \in 1..Len(h) : h[i] = "."}
      lastDot == CHOOSE i \in dots : \A j \in dots : j <= i
      before == {i \in dots : i < lastDot}
      cut == IF before = {} THEN 0
             ELSE CHOOSE i \in before : \A j \in before : j <= i
  IN r.op = "pds"
     => /\ r.pds.scheme = "https"
        /\ r.pds.host = (IF dots = {}
                         THEN <<"b", "s", "k", "y", ".",
                                "s", "o", "c", "i", "a", "l">>
                         ELSE SubSeq(h, cut + 1, Len(h)))
        /\ r.serviceUrl = r.pds

\* the endpoint of a handle of three labels was computed
C21_Witness ==
  /\ LastRes.op = "pds"
  /\ LastRes.handle = <<".", "a", ".", "b">>
  /\ LastRes.pds.host = <<"a", ".", "b">>

\* C22: after a successful update the stored mapping has the domain,
\* userHandle, userDid and createdAt it had when the request began, the
\* same fields, and the owner sets and the global set are as they were;
\* an update of an unregistered domain is answered 404 and a failed
\* update leaves the mapping and the sets as they were
C22_UpdateFrame ==
  LET r == LastRes
      b == r.atStart
      after == domainMap[r.domain]
  IN (r.op = "update" /\ AllIdle)
     => /\ userDomains = b.userDomains
        /\ allDomains = b.allDomains
        /\ IF r.status = 200
           THEN /\ ~IsNull(b.mapping) /\ ~IsNull(after)
                /\ DOMAIN after = DOMAIN b.mapping
                /\ \A f \in DOMAIN after \ {"status", "settings",
                                              "updatedAt"} :
                      after[f] = b.mapping[f]
           ELSE after = b.mapping
        /\ IsNull(b.mapping)
           => r.status = 404 /\ r.error = "DOMAIN_NOT_FOUND"

\* an update changed the status and the settings of a mapping at a
\* later time than its registration
C22_Witness ==
  /\ LastRes.op = "update" /\ LastRes.status = 200 /\ AllIdle
  /\ domainMap[LastRes.domain].status # LastRes.atStart.mapping.status
  /\ domainMap[LastRes.domain].settings
       # LastRes.atStart.mapping.settings
  /\ domainMap[LastRes.domain].updatedAt
       # LastRes.atStart.mapping.createdAt

\* C23: after a successful update the domain-mapping entry expires when
\* it would have expired without the update (its remaining time-to-live
\* is the one it had)
C23_UpdateKeepsTtl ==
  LET r == LastRes
  IN (r.op = "update" /\ r.status = 200 /\ AllIdle)
     => domainExp[r.domain] - now = r.atStart.exp - now

\* C24: after a delete answered 200 the domain resolves to nothing and is
\* in neither the deleting owner's set nor the global set, and a register
\* is refused as already registered only when somebody registered the
\* domain since it was last deleted
C24_DeleteFrees ==
  LET r == LastRes
  IN /\ (r.op = "ddelete" /\ r.status = 200 /\ AllIdle)
        => /\ IsNull(findDomainMapping(r.domain))
           /\ r.domain \notin userDomains[r.owner]
           /\ r.domain \notin allDomains
     /\ (r.op = "register" /\ r.status = 409 /\ AllIdle)
        => dghost[r.domain].regOwner # "none"

\* a domain deleted by its owner was registered by the other owner
C24_Witness ==
  /\ LastRes.op = "register" /\ LastRes.status = 201 /\ AllIdle
  /\ dghost[LastRes.domain].deletedBy \notin {"none", LastRes.owner}
  /\ findDomainMapping(LastRes.domain).userHandle = LastRes.owner

\* C25: versioning is sticky.  An upload that finds a record whose
\* versioningEnabled is set is treated as versioned (shouldVersion is set)
\* whatever enableVersioning it passed, and the record it stores has
\* versioningEnabled set; and no step clears versioningEnabled of a stored
\* record: a record that has it set keeps it until the record is removed
\* by the full delete.
C25_VersioningSticky ==
  /\ [](LET r == LastRes
        IN (r.op = "upload" /\ r.status \in {200, 201}
              /\ ~IsNull(r.existing) /\ Truthy(r.existing.versioningEnabled))
           => /\ Truthy(r.shouldVersion)
              /\ r.hasVersion
              /\ Truthy(r.record.versioningEnabled))
  /\ [][\A rk \in RKeys :
          (~IsNull(repo[rk]) /\ Truthy(repo[rk].versioningEnabled))
          => \/ /\ ~IsNull(repo'[rk])
                /\ Truthy(repo'[rk].versioningEnabled)
             \/ /\ IsNull(repo'[rk])
                /\ \E p \in Procs : /\ loc[p].pc = "del_rec"
                                    /\ loc[p].version = NoVersion
                                    /\ sanitizeKey(loc[p].key) = rk]_vars

\* an upload that passed enableVersioning=false to a record that has
\* versioning enabled was stored as a new version
C25_Witness ==
  /\ LastRes.op = "upload" /\ LastRes.status = 200 /\ AllIdle
  /\ LastRes.existing.versioningEnabled = "s:true"
  /\ LastRes.shouldVersion = "s:false"
  /\ Truthy(repo[sanitizeKey(LastRes.key)].versioningEnabled)
  /\ Len(repo[sanitizeKey(LastRes.key)].versions)
       > Len(VersionsOf(LastRes.existing))

\* C26: an upload to an existing record with shouldVersion false stores
\* the record it read with current replaced by the new BlobInfo and
\* updatedAt rewritten; key, createdAt, versioningEnabled and the versions
\* map (present or not, and its entries) are those of the record before.
C26_PlainUploadFrame ==
  LET r == LastRes
      rk == sanitizeKey(r.key)
  IN (r.op = "upload" /\ r.status = 200 /\ ~Truthy(r.shouldVersion)
        /\ AllIdle)
     => /\ ~IsNull(repo[rk])
        /\ repo[rk].current = r.blobInfo
        /\ repo[rk].key = r.existing.key
        /\ repo[rk].createdAt = r.existing.createdAt
        /\ repo[rk].versioningEnabled = r.existing.versioningEnabled
        /\ repo[rk].hasVersions = r.existing.hasVersions
        /\ repo[rk].versions = r.existing.versions
        /\ repo[rk] = [r.existing EXCEPT !.current = r.blobInfo,
                                         !.updatedAt = repo[rk].updatedAt]

\* a plain upload replaced a different blob, later than the creation
C26_Witness ==
  /\ LastRes.op = "upload" /\ LastRes.status = 200 /\ AllIdle
  /\ ~Truthy(LastRes.shouldVersion)
  /\ repo[sanitizeKey(LastRes.key)].current = LastRes.blobInfo
  /\ LastRes.existing.current # LastRes.blobInfo
  /\ repo[sanitizeKey(LastRes.key)].updatedAt
       > repo[sanitizeKey(LastRes.key)].createdAt

\* C27: an upload to a key with no record stores a record whose current is
\* the new BlobInfo, whose versioningEnabled is shouldVersion, whose
\* versions map is present, and empty, exactly when shouldVersion is set,
\* and whose createdAt equals its updatedAt.
C27_CreatedRecord ==
  LET r == LastRes
      rk == sanitizeKey(r.key)
  IN (r.op = "upload" /\ r.status = 201 /\ AllIdle)
     => /\ IsNull(r.existing)
        /\ ~IsNull(repo[rk])
        /\ repo[rk].current = r.blobInfo
        /\ repo[rk].versioningEnabled = r.shouldVersion
        /\ repo[rk].hasVersions <=> Truthy(r.shouldVersion)
        /\ repo[rk].versions = <<>>
        /\ repo[rk].createdAt = repo[rk].updatedAt

\* C28: a successful upload returns a version id exactly when a record
\* already existed and shouldVersion is set, and the id it returns is the
\* key of the versions map under which the entry of that upload is stored.
C28_ReturnedVersionId ==
  LET r == LastRes
      rk == sanitizeKey(r.key)
  IN (r.op = "upload" /\ r.status \in {200, 201} /\ AllIdle)
     => /\ r.hasVersion <=> (~IsNull(r.existing) /\ Truthy(r.shouldVersion))
        /\ r.hasVersion
           => /\ VHas(VersionsOf(repo[rk]), r.version)
              /\ BlobInfoOf(VGet(VersionsOf(repo[rk]), r.version))
                   = r.blobInfo

\* C29: listVersions returns the record's current and every entry of its
\* versions map, each once, ordered by uploadedAt descending, entries of
\* equal uploadedAt in the order they have in the map; a record without a
\* versions map gives current and the empty list.
C29_ListOrder ==
  (res[1].op = "listed")
  => LET rec == res[1].record
         in == VersionsOf(rec)
         out == res[1].response.versions
         pos(e) == CHOOSE i \in 1..Len(in) : in[i] = e
     IN /\ res[1].response.status = 200
        /\ res[1].response.current = rec.current
        /\ Len(out) = Len(in)
        /\ {out[i] : i \in 1..Len(out)} = {in[i] : i \in 1..Len(in)}
        /\ \A i, j \in 1..Len(out) :
             i < j => /\ out[i].uploadedAt >= out[j].uploadedAt
                      /\ out[i].uploadedAt = out[j].uploadedAt
                         => pos(out[i]) < pos(out[j])
        /\ ~rec.hasVersions => out = <<>>

\* three entries, the first and the last uploaded at the same time and
\* before the middle one: the middle one is listed first, the other two
\* in the order of the map
C29_Witness ==
  /\ res[1].op = "listed"
  /\ Len(res[1].record.versions) = 3
  /\ res[1].record.versions[1].uploadedAt = 1
  /\ res[1].record.versions[2].uploadedAt = 2
  /\ res[1].record.versions[3].uploadedAt = 1
  /\ res[1].response.versions
       = <<res[1].record.versions[2], res[1].record.versions[1],
           res[1].record.versions[3]>>

\* C30: two versioned uploads to one key that both read the same existing
\* record before either persisted both answer 200; every putRecord stores
\* the record of its upload as a whole, so the record finally stored is
\* the record of one of the two alone (the existing entries plus that
\* upload's entry) and the entry the other upload wrote is not in it.
C30_LostVersion ==
  /\ [](LET RacedPair(a, b) ==
              /\ a.op = "upload" /\ b.op = "upload"
              /\ a.status \in {200, 201} /\ b.status \in {200, 201}
              /\ ~IsNull(a.existing) /\ a.existing = b.existing
              /\ Truthy(a.shouldVersion) /\ Truthy(b.shouldVersion)
              /\ a.record.versions # b.record.versions
            NewEntries(a) ==
              {a.record.versions[i] : i \in 1..Len(a.record.versions)}
                \ {VersionsOf(a.existing)[i] :
                     i \in 1..Len(VersionsOf(a.existing))}
        IN (AllIdle /\ RacedPair(res[1], res[2]))
           => LET rk == sanitizeKey(res[1].key)
                  stored == {repo[rk].versions[i] :
                               i \in 1..Len(repo[rk].versions)}
              IN /\ res[1].status = 200 /\ res[2].status = 200
                 /\ res[1].hasVersion /\ res[2].hasVersion
                 /\ \E w \in Procs :
                      /\ repo[rk] = res[w].record
                      /\ \A o \in Procs \ {w} :
                           NewEntries(res[o]) \cap stored = {})
  /\ [][\A p \in Procs :
          (loc[p].pc = "up_put" /\ loc'[p].pc = "up_resp")
          => repo'[sanitizeKey(loc[p].key)] = loc[p].record]_vars

\* both uploads read the same existing record and wrote entries under
\* different version ids; the stored record has one entry more than the
\* record they read
C30_Witness ==
  /\ AllIdle
  /\ res[1].op = "upload" /\ res[2].op = "upload"
  /\ res[1].status = 200 /\ res[2].status = 200
  /\ res[1].existing = res[2].existing
  /\ res[1].hasVersion /\ res[2].hasVersion
  /\ VKeys(res[1].record.versions) # VKeys(res[2].record.versions)
  /\ Len(res[1].record.versions) = Len(VersionsOf(res[1].existing)) + 1
  /\ Len(res[2].record.versions) = Len(VersionsOf(res[2].existing)) + 1
  /\ Len(repo[sanitizeKey(res[1].key)].versions)
       = Len(VersionsOf(res[1].existing)) + 1

\* C31: two distinct keys that sanitize to the same record key share one
\* record.  A get of one key after the latest upload went to the other
\* key returns the content of that upload, and after a delete of the whole
\* record through one key no key with the same record key has a record.
C31_SharedRecord ==
  LET r == LastRes
  IN /\ (/\ r.op = "get" /\ r.status # 400 /\ r.version = NoVersion
         /\ GhostOf(r.key).lastWrite = "upload"
         /\ GhostOf(r.key).lastUp.key # r.key)
        => /\ sanitizeKey(GhostOf(r.key).lastUp.key) = sanitizeKey(r.key)
           /\ r.status = 200
           /\ r.data = GhostOf(r.key).lastUp.bytes
     /\ (/\ r.op = "delete" /\ r.status = 200 /\ r.version = NoVersion
         /\ AllIdle)
        => \A k \in ValidKeys :
             sanitizeKey(k) = sanitizeKey(r.key)
             => IsNull(getMappingRecord(k))

\* after an upload to one key and a later upload to the other, a get of
\* the first key returned the later upload's content
C31_Witness ==
  /\ LastRes.op = "get" /\ LastRes.status = 200 /\ LastRes.key = <<"k">>
  /\ GhostOf(<<"k">>).lastUp.key = <<"K">>
  /\ GhostOf(<<"k">>).nUp >= 2
  /\ LastRes.data = GhostOf(<<"k">>).lastUp.bytes
  /\ \E b \in GhostOf(<<"k">>).superseded :
       downloadBlob(b.cid) # LastRes.data

\* C32: after invalidateUserBlobs has succeeded, no mapping entry and no
\* metadata entry is cached for any key that was in the owner's key-set
\* when it ran, and the key-set is gone.
C32_BulkInvalidation ==
  LET r == LastRes
  IN (r.op = "cache" /\ r.method = "invalidateUserBlobs" /\ r.ret = TRUE)
     => /\ r.up
        /\ \A k \in r.key : /\ IsNull(cacheMapping[k])
                           /\ IsNull(cacheMeta[k])
        /\ userBlobs = {}

\* the bulk invalidation ran on a key-set of two keys
C32_Witness ==
  /\ LastRes.op = "cache" /\ LastRes.method = "invalidateUserBlobs"
  /\ LastRes.ret = TRUE
  /\ LastRes.key = ValidKeys
  /\ userBlobs = {}
  /\ \A k \in ValidKeys : IsNull(cacheMapping[k]) /\ IsNull(cacheMeta[k])

\* C33: a request whose Host is not localhost, not 127.0.0.1, not a host
\* of bucket.social and not a registered domain is answered 404
\* DOMAIN_NOT_REGISTERED by the domain middleware, and no handler runs
\* for it.
C33_UnregisteredHostRejected ==
  LET outside(host) ==
        /\ host \notin {"localhost", "127.0.0.1", "api.bucket.social"}
        /\ host \notin Domains \/ IsNull(domainMap[host])
  IN /\ (LastRes.op = "hostget" /\ AllIdle /\ outside(LastRes.host))
        => /\ LastRes.status = 404
           /\ LastRes.error = "DOMAIN_NOT_REGISTERED"
     /\ \A p \in Procs :
          (loc[p].pc # "idle" /\ loc[p].op = "get"
             /\ "host" \in DOMAIN loc[p])
          => ~outside(loc[p].host)

\* C34: for each identifier and each window a limiter with maximum M
\* admits at most M requests; a request it rejects is answered 429
\* RATE_LIMIT_EXCEEDED inside the window (the reset time has not passed)
\* and changes nothing; a request after the reset time has passed is
\* admitted and starts a window with count 1.
C34_RateLimit ==
  /\ \A o \in Owners, m \in RateLimits : rateGhost[o][m] <= m
  /\ LET r == LastRes
     IN (r.op = "rate")
        => /\ r.status = 429
              => /\ r.error = "RATE_LIMIT_EXCEEDED"
                 /\ ~IsNull(r.before)
                 /\ r.at <= r.before.resetTime
                 /\ r.before.count >= r.maxRequests
                 /\ rateLimitMap[r.identifier] = r.before
           /\ (IsNull(r.before) \/ r.at > r.before.resetTime)
              => /\ r.status = 200 /\ r.newWindow
                 /\ rateLimitMap[r.identifier]
                      = [count |-> 1, resetTime |-> r.at + r.windowMs]
           /\ (r.status = 200 /\ ~r.newWindow)
              => /\ r.before.count < r.maxRequests
                 /\ rateLimitMap[r.identifier]
                      = [r.before EXCEPT !.count = @ + 1]

\* a limiter with maximum 2 has admitted 2 requests of an identifier and
\* rejects the next one at the reset time itself
C34_Witness ==
  /\ LastRes.op = "rate" /\ LastRes.status = 429
  /\ LastRes.maxRequests = 2
  /\ rateGhost[LastRes.identifier][2] = 2
  /\ LastRes.at = LastRes.before.resetTime

\* C35: a getAgent call that returns an authenticated agent (one with a
\* live session) carried the password a login of that identifier
\* accepts; a call with a wrong password never obtains the session, not
\* even when a session of the identifier is cached
C35_SessionNeedsPassword ==
  LET r == LastRes
  IN (r.op = "getAgent" /\ ~IsNull(r.agent))
     => r.password = PasswordOf(r.identifier)

\* C36: a version delete never changes current, also when it runs
\* concurrently with an upload to the same key: when an upload and a
\* version delete that read the same record have both completed, the
\* current of the stored record is the BlobInfo of that upload
C36_VersionDeleteKeepsCurrent ==
  \A p \in Procs, q \in Procs :
    (/\ AllIdle
     /\ res[p].op = "upload" /\ res[p].status = 200
     /\ res[q].op = "delete" /\ res[q].status = 200
     /\ res[q].version # NoVersion
     /\ res[q].before = res[p].existing)
    => repo[sanitizeKey(res[p].key)].current = res[p].blobInfo

\* C37: the write of a domain delete or update issued by a user never
\* removes or modifies a mapping owned by another user, under any
\* interleaving with other requests for the same domain: at the step
\* that writes, the mapping of the domain is absent or owned by the
\* requester
C37_WritesOwnMappingOnly ==
  [][\A p \in Procs :
       (/\ loc[p].pc \in {"dd_write", "upd_write"}
        /\ loc'[p].pc # loc[p].pc)
       => \/ IsNull(domainMap[loc[p].domain])
          \/ domainMap[loc[p].domain].userHandle = loc[p].owner]_vars

\* C38: whenever a mapping entry is cached for a key, the key is a member
\* of the owner's key-set, after any sequence of setBlobMapping,
\* updateBlobMapping, invalidateBlobMapping and TTL expirations
C38_CachedKeyInKeySet ==
  \A k \in ValidKeys : ~IsNull(cacheMapping[k]) => k \in userBlobs

\* C39: sanitizeKey is idempotent and its result never begins or ends
\* with '-': sanitizeKey(sanitizeKey(k)) = sanitizeKey(k) for every key k,
\* keys of more than 64 characters included
C39_SanitizeIdempotent ==
  LET r == LastRes
  IN r.op = "sanitize"
     => /\ sanitizeKey(r.out) = r.out
        /\ r.out # <<>> => (r.out[1] # "-" /\ r.out[Len(r.out)] # "-")

\* C40: every key accepted by key validation sanitizes to a non-empty
\* record key
C40_AcceptedKeyHasRecordKey ==
  LET r == LastRes
  IN (r.op = "sanitize" /\ validateKey(r.key) = "ok") => r.out # <<>>
====
